---- MODULE Spec2Model ----
(***************************************************************************)
(* L-Store transaction core: lock manager, transaction executor, worker    *)
(* retry loop and the query layer they drive (insert / update / delete /   *)
(* select / sum over one table with a primary-key index).                  *)
(*                                                                         *)
(* Granularity.  Every action is one critical section of the code (a call  *)
(* made under one mutex: the lock-manager latch, the index lock, the       *)
(* RID-counter lock) or one lock-free stretch between two of them.  The    *)
(* table has two user columns: column 0 is the primary key, column 1 a     *)
(* value column.  Python values are kept as the integers Python compares   *)
(* them as: True = 1, False = 0, the integrity result = -1.                *)
(***************************************************************************)
EXTENDS Integers, Sequences, FiniteSets, TLC

\* ------------------------------------------------------------------ bounds
MaxKey == 2        \* primary keys are 1..MaxKey
MaxVal == 1        \* values of the value column are 0..MaxVal
MaxRid == 9        \* the RID counter stops handing out RIDs at MaxRid
MaxFalse == 2      \* False entries kept in a worker's stats list (saturating)

Keys == 1..MaxKey
Vals == 0..MaxVal
RIDs == 0..(MaxRid - 1)
Workers == {1, 2}

\* Python's None in an update's column list.
None == 0 - 1

\* lstore.config values (the config module is not part of the sources).
INDIRECTION_NULL == 0 - 1
CREATE_INDICES_CONDITION == 2

\* A threading.Lock is Free, held by a transaction id (the latch), or Dead: held by
\* a thread that an exception ended, which never releases it.
Free == 0
Dead == 0 - 1

\* ------------------------------------------------------------ variables
VARIABLES
    \* LockManager
    locks,          \* self.locks: RID -> list of (mode, transaction id); only present keys
    lock_owners,    \* self.lock_owners: transaction id -> list of RIDs; only present ids
    latch,          \* self.latch: Free or the id of the transaction holding it
    \* Table / Index / pages
    num_records,    \* Table.num_records, the RID counter
    page_directory, \* the RIDs that have a page-directory entry
    recs,           \* the record written at each RID: [ind, cols]
    pkidx,          \* Index.indices[key column]: key -> list of base RIDs ("<<>>" = key absent)
    indexed,        \* Index.indices[key column] is not None
    index_lock,     \* Index.lock: Free, or Dead once a thread died holding it
    num_page_ranges,\* Table.num_page_ranges
    validx,         \* Index.indices[value column]: value -> list of base RIDs
    vindexed,       \* Index.indices[value column] is not None
    \* Query
    insert_lock,    \* Query.insert_lock of the main thread's Query object
    \* Transaction
    queries,        \* Transaction.queries of each transaction
    \* TransactionWorker and the thread running it
    phase,          \* "load": the main thread fills the table; "run": the workers run
    pc,             \* where each worker thread is
    ti,             \* index of the worker's current transaction
    qi,             \* index of the current query of Transaction.run
    loc,            \* locals of the running call: rids to lock, base RID, values read
    retval,         \* the value Transaction.run is returning / has returned
    stats,          \* TransactionWorker.stats
    result,         \* TransactionWorker.result
    \* history of the current run, kept for the properties
    hist,
    \* the main thread's direct calls: what they did, kept for the properties
    shadow,         \* per base RID: the values of each version and the RIDs it used
    lastcall,       \* the last direct call and what it returned
    \* where the records lie: page ranges, pages, slots
    store,          \* Table and its pages: RID counter, page ranges, page directory
    threads,        \* the threads that call Query methods: position and locals
    qlocks,         \* per Query object: the holders of insert_lock and update_lock
    placed,         \* the main thread's inserts and its last select, for the properties
    \* Bufferpool
    pool,           \* pages, lru_pages, evict_lock, page_locks and the PhysicalPage objects
    fetchers,       \* the threads that fetch, pin and unpin pages: position and locals
    \* Bufferpool and the page files, with the bytes of the pages
    cache,          \* pages with their data and dirty flag, lru_pages, and the files
    \* Table.merge: one full base page, its tail pages, its files, the merge queue
    mg,
    \* the schema encoding of the base records
    enc,            \* per base RID: the latest columns and the schema encoding
    \* Table.merge_queue and the threads of Table.merge
    mq

lmVars == <<locks, lock_owners, latch>>
tableVars == <<num_records, page_directory, recs, pkidx, indexed, index_lock,
               num_page_ranges, validx, vindexed>>
workerVars == <<queries, phase, pc, ti, qi, loc, retval, stats, result, hist>>
seqVars == <<insert_lock, shadow, lastcall>>

\* What the transactions and their workers never touch.
placeVars == <<store, threads, qlocks, placed>>
poolVars == <<pool, fetchers>>
cacheVars == <<cache>>
mergeVars == <<mg>>
moreVars == <<enc, mq>>
otherVars == <<seqVars, placeVars, poolVars, cacheVars, mergeVars, moreVars>>

vars == <<lmVars, tableVars, workerVars, otherVars>>

\* ------------------------------------------------------------- helpers
Put(f, k, v) == [x \in (DOMAIN f) \cup {k} |-> IF x = k THEN v ELSE f[x]]

Drop(f, k) == [x \in (DOMAIN f) \ {k} |-> f[x]]

RECURSIVE Without(_, _)
\* list.remove(x): the list without the first occurrence of x.
Without(s, x) ==
    IF s = <<>> THEN <<>>
    ELSE IF Head(s) = x THEN Tail(s)
    ELSE <<Head(s)>> \o Without(Tail(s), x)

Contains(s, x) == \E i \in 1..Len(s) : s[i] = x

\* ---------------------------------------------------------- LockManager
Lock(mode, t) == [mode |-> mode, tid |-> t]

\* __add_lock_owner
AddLockOwner(O, key, t) ==
    IF t \notin DOMAIN O THEN Put(O, t, <<key>>)
    ELSE Put(O, t, Append(O[t], key))

\* Faulty variant: the scan grants a shared lock next to another transaction's X lock.
SharedScanIgnoringX(l, i, t) ==
    IF \E j \in 1..Len(l) : l[j].tid = t THEN "has" ELSE "grant"

\* Faulty variant: the scan does not look for an entry of the requester.
SharedScanBlind(l, i, t) ==
    IF \E j \in 1..Len(l) : l[j].mode = "X" /\ l[j].tid # t THEN "reject" ELSE "grant"

\* The scan of one record's lock list in acquire_shared_lock (lines 33-44): the first
\* entry that decides is either an entry of the requester ("has") or an X entry of
\* another transaction ("reject"); with neither the lock is granted ("grant").
RECURSIVE SharedScan(_, _, _)
SharedScan(l, i, t) ==
    IF i > Len(l) THEN "grant"
    ELSE IF l[i].tid = t THEN "has"
    ELSE IF l[i].mode = "X" /\ l[i].tid # t THEN "reject"
    ELSE SharedScan(l, i + 1, t)

RECURSIVE SharedLoop(_, _, _, _, _)
SharedLoop(L, O, keys, i, t) ==
    IF i > Len(keys) THEN [locks |-> L, owners |-> O, ok |-> TRUE, latch |-> Free]
    ELSE LET key == keys[i] IN
         IF key \notin DOMAIN L
         THEN SharedLoop(Put(L, key, <<Lock("S", t)>>), AddLockOwner(O, key, t),
                         keys, i + 1, t)
         ELSE LET verdict == SharedScan(L[key], 1, t) IN
              IF verdict = "reject"
              THEN [locks |-> L, owners |-> O, ok |-> FALSE, latch |-> Free]
              ELSE IF verdict = "has"
              THEN SharedLoop(L, O, keys, i + 1, t)
              ELSE SharedLoop(Put(L, key, Append(L[key], Lock("S", t))),
                              AddLockOwner(O, key, t), keys, i + 1, t)

\* Faulty variant: a rejected request gives back what it was granted.
acquire_shared_lock_undoing(L, O, keys, t) ==
    LET r == SharedLoop(L, O, keys, 1, t) IN
    IF r.ok THEN r ELSE [r EXCEPT !.locks = L, !.owners = O]

\* acquire_shared_lock(keys, transaction_id), run under the latch: the lock table and
\* the owners map it leaves, its result, and the latch as the taken return path
\* leaves it.
acquire_shared_lock(L, O, keys, t) == SharedLoop(L, O, keys, 1, t)

\* Faulty variant: only the X entries of other transactions reject the request.
ExclusiveScanSharing(l, i, t) ==
    IF \E j \in 1..Len(l) : l[j].mode = "X" /\ l[j].tid # t
    THEN [list |-> l, ok |-> FALSE]
    ELSE [list |-> IF l = <<Lock("S", t)>> THEN <<Lock("X", t)>> ELSE l, ok |-> TRUE]

\* The scan of one record's lock list in acquire_exclusive_lock (lines 67-81).
RECURSIVE ExclusiveScan(_, _, _)
ExclusiveScan(l, i, t) ==
    IF i > Len(l) THEN [list |-> l, ok |-> TRUE]
    ELSE IF l[i].mode = "X" /\ l[i].tid = t THEN [list |-> l, ok |-> TRUE]
    ELSE IF l[i].tid # t THEN [list |-> l, ok |-> FALSE]
    ELSE IF l[i].mode = "S" /\ l[i].tid = t /\ Len(l) = 1
    THEN ExclusiveScan([l EXCEPT ![i] = Lock("X", t)], i + 1, t)
    ELSE ExclusiveScan(l, i + 1, t)

RECURSIVE ExclusiveLoop(_, _, _, _, _)
ExclusiveLoop(L, O, keys, i, t) ==
    IF i > Len(keys) THEN [locks |-> L, owners |-> O, ok |-> TRUE, latch |-> Free]
    ELSE LET key == keys[i] IN
         IF key \notin DOMAIN L
         THEN ExclusiveLoop(Put(L, key, <<Lock("X", t)>>), AddLockOwner(O, key, t),
                            keys, i + 1, t)
         ELSE LET scan == ExclusiveScan(L[key], 1, t) IN
              IF ~scan.ok
              THEN [locks |-> Put(L, key, scan.list), owners |-> O, ok |-> FALSE,
                    latch |-> Free]
              ELSE ExclusiveLoop(Put(L, key, scan.list), O, keys, i + 1, t)

\* Faulty variant: the rejecting return path leaves the latch held.
acquire_exclusive_lock_latch_kept(L, O, keys, t) ==
    LET r == ExclusiveLoop(L, O, keys, 1, t) IN
    IF r.ok THEN r ELSE [r EXCEPT !.latch = t]

\* acquire_exclusive_lock(keys, transaction_id), run under the latch.
acquire_exclusive_lock(L, O, keys, t) == ExclusiveLoop(L, O, keys, 1, t)

\* The while loop of release_held_locks (lines 96-101): every entry of t is popped.
RECURSIVE PopOwned(_, _)
PopOwned(l, t) ==
    IF l = <<>> THEN <<>>
    ELSE IF Head(l).tid = t THEN PopOwned(Tail(l), t)
    ELSE <<Head(l)>> \o PopOwned(Tail(l), t)

\* Faulty variant: a RID whose list becomes empty stays in the lock table.
RECURSIVE ReleaseLoopKeepingEmpty(_, _, _, _)
ReleaseLoopKeepingEmpty(L, owned, i, t) ==
    IF i > Len(owned) THEN L
    ELSE ReleaseLoopKeepingEmpty(Put(L, owned[i], PopOwned(L[owned[i]], t)),
                                 owned, i + 1, t)

RECURSIVE ReleaseLoop(_, _, _, _)
ReleaseLoop(L, owned, i, t) ==
    IF i > Len(owned) THEN L
    ELSE LET key == owned[i]
             rest == PopOwned(L[key], t)
         IN  ReleaseLoop(IF rest = <<>> THEN Drop(L, key) ELSE Put(L, key, rest),
                         owned, i + 1, t)

\* Faulty variant: only the first RID of the owner's list is released.
release_held_locks_first_only(L, O, t) ==
    IF t \notin DOMAIN O
    THEN [locks |-> L, owners |-> O, latch |-> Free]
    ELSE [locks |-> ReleaseLoop(L, SubSeq(O[t], 1, 1), 1, t), owners |-> Drop(O, t),
          latch |-> Free]

\* release_held_locks(transaction_id), run under the latch.
release_held_locks(L, O, t) ==
    IF t \notin DOMAIN O
    THEN [locks |-> L, owners |-> O, latch |-> Free]
    ELSE [locks |-> ReleaseLoop(L, O[t], 1, t), owners |-> Drop(O, t), latch |-> Free]

\* ------------------------------------------------- results of Python calls
\* A query's return value: a bool (n = 1 / 0), a list of n records, or an int n.
\* Python's "not r" is true exactly for False, the empty list and 0.
BoolResult(b) == [kind |-> "bool", n |-> IF b THEN 1 ELSE 0]
ListResult(n) == [kind |-> "list", n |-> n]
IntResult(n) == [kind |-> "int", n |-> n]
PyNot(r) == r.n = 0
IsFalse(r) == r.kind = "bool" /\ r.n = 0

\* bool(val) for the values Transaction.run returns: True = 1, False = 0, -1.
PyTruthy(val) == val # 0

\* ------------------------------------------------------------- Table state
\* The table as one value T, so that the steps of a query compose.
TableState ==
    [num_records |-> num_records, page_directory |-> page_directory, recs |-> recs,
     pkidx |-> pkidx, indexed |-> indexed, index_lock |-> index_lock,
     num_page_ranges |-> num_page_ranges, validx |-> validx, vindexed |-> vindexed]

SetTable(T) ==
    /\ num_records' = T.num_records
    /\ page_directory' = T.page_directory
    /\ recs' = T.recs
    /\ pkidx' = T.pkidx
    /\ indexed' = T.indexed
    /\ index_lock' = T.index_lock
    /\ num_page_ranges' = T.num_page_ranges
    /\ validx' = T.validx
    /\ vindexed' = T.vindexed

\* What a query can leave behind: pages, page directory and indices.
Stored(T) == <<T.page_directory, T.recs, T.pkidx, T.indexed, T.validx, T.vindexed>>

\* The records of the table: pages and page directory.
Written(T) == <<T.page_directory, T.recs>>

\* ------------------------------------------------------------- Index
\* locate on the primary-key column: -1 (found = FALSE) when the column has no index
\* or the value no entry, otherwise the list kept for the value.
NotFound == [found |-> FALSE, list |-> <<>>]
Found(l) == [found |-> TRUE, list |-> l]

locate(T, value) ==
    IF ~T.indexed THEN NotFound
    ELSE IF T.pkidx[value] = <<>> THEN NotFound
    ELSE Found(T.pkidx[value])

RECURSIVE RangeRids(_, _, _)
RangeRids(T, begin, end) ==
    IF begin > end THEN <<>>
    ELSE (IF begin \in Keys THEN T.pkidx[begin] ELSE <<>>) \o RangeRids(T, begin + 1, end)

locate_range(T, begin, end) ==
    IF ~T.indexed THEN NotFound ELSE Found(RangeRids(T, begin, end))

\* get_all_base_rids: every RID of the primary-key index, -1 without that index.
get_all_base_rids(T) ==
    IF ~T.indexed THEN NotFound ELSE Found(RangeRids(T, 1, MaxKey))

EmptyIndex == [k \in Keys |-> <<>>]

\* create_index on the primary-key column.  It is only ever called while that column
\* has no index, which is before the first base page exists (the first insert creates
\* page range, base page and index together), so the scan of the base pages finds no
\* record and the new index is empty.
create_index(T) == [T EXCEPT !.indexed = TRUE, !.pkidx = EmptyIndex]

\* Index.add on the primary-key column.
IndexAdd(T, key, rid) ==
    IF ~T.indexed THEN T ELSE [T EXCEPT !.pkidx[key] = Append(@, rid)]

\* update_index on the primary-key column: "ok" with the new index, or "raise" when
\* the dict lookup / list.remove raises (the old value has no entry, or the entry
\* does not hold the RID); the exception leaves Index.lock held for ever.
update_index(T, old_value, new_value, base_rid) ==
    IF ~T.indexed THEN [st |-> "ok", T |-> T]
    ELSE IF ~Contains(T.pkidx[old_value], base_rid)
    THEN [st |-> "raise", T |-> [T EXCEPT !.index_lock = Dead]]
    ELSE LET removed == [T EXCEPT !.pkidx[old_value] = Without(@, base_rid)]
         IN  [st |-> "ok", T |-> [removed EXCEPT !.pkidx[new_value] = Append(@, base_rid)]]

\* delete_index for the primary-key column, given the key of the latest record.
delete_index(T, key, base_rid) ==
    IF ~T.indexed THEN T
    ELSE IF T.pkidx[key] = <<>> THEN T
    ELSE [T EXCEPT !.pkidx[key] = Without(@, base_rid)]

\* The same three operations on the index of the value column.
IndexAddVal(T, value, rid) ==
    IF ~T.vindexed THEN T ELSE [T EXCEPT !.validx[value] = Append(@, rid)]

\* Faulty variant: the RID stays under the old value.
update_index_val_keeping_old(T, old_value, new_value, base_rid) ==
    IF ~T.vindexed \/ ~T.indexed THEN [st |-> "ok", T |-> T]
    ELSE [st |-> "ok", T |-> [T EXCEPT !.validx[new_value] = Append(@, base_rid)]]

update_index_val(T, old_value, new_value, base_rid) ==
    IF ~T.vindexed \/ ~T.indexed THEN [st |-> "ok", T |-> T]
    ELSE IF ~Contains(T.validx[old_value], base_rid)
    THEN [st |-> "raise", T |-> [T EXCEPT !.index_lock = Dead]]
    ELSE LET removed == [T EXCEPT !.validx[old_value] = Without(@, base_rid)]
         IN  [st |-> "ok", T |-> [removed EXCEPT !.validx[new_value] = Append(@, base_rid)]]

delete_index_val(T, value, base_rid) ==
    IF ~T.vindexed THEN T
    ELSE IF T.validx[value] = <<>> THEN T
    ELSE [T EXCEPT !.validx[value] = Without(@, base_rid)]

\* ------------------------------------------------------------- Table
Rec(ind, cols, base) == [ind |-> ind, cols |-> cols, base |-> base]

\* get_record_version(rid, 0) / get_latest_record for a base RID: "none" when the RID
\* has no page-directory entry or names a tail record, "raise" when the indirection
\* leads to an RID without page-directory entry (the unpacking of -1 raises),
\* otherwise the latest record and its RID.  The TPS of the base page is 0 here (no
\* merge has run), so "indirection <= tps" holds exactly for a null indirection.
get_latest_record(T, rid) ==
    IF rid \notin T.page_directory THEN [st |-> "none", rid |-> rid, cols |-> <<>>]
    ELSE IF ~T.recs[rid].base THEN [st |-> "none", rid |-> rid, cols |-> <<>>]
    ELSE IF T.recs[rid].ind = INDIRECTION_NULL
    THEN [st |-> "ok", rid |-> rid, cols |-> T.recs[rid].cols]
    ELSE IF T.recs[rid].ind \notin T.page_directory
    THEN [st |-> "raise", rid |-> T.recs[rid].ind, cols |-> <<>>]
    ELSE [st |-> "ok", rid |-> T.recs[rid].ind, cols |-> T.recs[T.recs[rid].ind].cols]

\* Faulty variant: the counter is read (operation "r") and not incremented.
use_num_records_r(T) == [res |-> T.num_records, T |-> T]

\* use_num_records("p"): read, then increment.
use_num_records_p(T) == [res |-> T.num_records, T |-> [T EXCEPT !.num_records = @ + 1]]

\* ------------------------------------------------------------- Query
\* The arguments of a query: see "the workload" below.  A step of a query returns
\* st = "true" / "false" (the query returned that), "go" (the query goes on with its
\* next step), "raise" (an exception ends the thread) or "spin" (a loop that never
\* ends), the table T it leaves, and the locals it hands to the next step.
NoLoc == [rids |-> <<>>, mode |-> "-", rid |-> None, cols |-> <<>>, prid |-> None,
          bind |-> None, rest |-> <<>>]

Out(st, T, l) == [st |-> st, T |-> T, loc |-> l]

\* Query.insert, lines 77-147 (under insert_lock): the duplicate check, the RID (the
\* pre-allocated one popped off the arguments, or a new one), and for the first
\* insert the page range, its page-directory entry (before the record is written:
\* the slot still holds zero bytes) and the primary-key index.
InsertReserve(T, q) ==
    IF locate(T, q.k).found THEN Out("false", T, NoLoc)
    ELSE LET pre == Len(q.extra) > 0
             got == use_num_records_p(T)
             rid == IF pre THEN q.extra[Len(q.extra)] ELSE got.res
             rest == IF pre THEN SubSeq(q.extra, 1, Len(q.extra) - 1) ELSE <<>>
             T1 == IF pre THEN T ELSE got.T
             T2 == IF T1.num_page_ranges # 0 THEN T1
                   ELSE create_index(
                          [T1 EXCEPT !.num_page_ranges = 1,
                                     !.page_directory = @ \cup {rid},
                                     !.recs = Put(@, rid, Rec(0, <<0, 0>>, TRUE))])
         IN  Out("go", T2, [NoLoc EXCEPT !.rid = rid, !.rest = rest])

\* Query.insert, lines 149-167: the write of the record, the page-directory entry and
\* the index entry.  Page.write raises (IndexError) on a record with more columns
\* than the table, after it wrote the columns the table has.
InsertWrite(T, q, l) ==
    LET written == [T EXCEPT !.recs = Put(@, l.rid, Rec(INDIRECTION_NULL, <<q.k, q.v>>, TRUE))]
    IN  IF l.rest # <<>> THEN Out("raise", written, NoLoc)
        ELSE Out("true",
                 IndexAddVal(
                   IndexAdd([written EXCEPT !.page_directory = @ \cup {l.rid}], q.k, l.rid),
                   q.v, l.rid),
                 NoLoc)

\* Query.update, lines 253-284: the no-op checks, the primary-key collision check and
\* the reads of the latest record and of the base record's indirection.
UpdateCheck(T, q) ==
    IF q.k2 = None /\ q.v = None THEN Out("true", T, NoLoc)
    ELSE IF ~locate(T, q.k).found THEN Out("true", T, NoLoc)
    ELSE IF q.k2 # None /\ q.k2 # q.k /\ locate(T, q.k2).found THEN Out("false", T, NoLoc)
    ELSE LET rid == locate(T, q.k).list[1]
             prev == get_latest_record(T, rid)
         IN  IF prev.st # "ok" THEN Out("raise", T, NoLoc)
             ELSE Out("go", T, [NoLoc EXCEPT !.rid = rid, !.cols = prev.cols,
                                             !.prid = prev.rid,
                                             !.bind = T.recs[rid].ind])

\* __insert_to_tail_page(base_rid, columns, updated_record), lines 371-453 without the
\* merge trigger: a new RID, the tail record, its page-directory entry, the base
\* record's indirection (change_indirection) and update_index for every column of
\* "columns" that has an index.  The read of the base RID's page-directory entry
\* raises when the entry is gone.
InsertToTail(T, base_rid, columns, ind, cols) ==
    IF base_rid \notin T.page_directory THEN [st |-> "raise", T |-> T, rid |-> None]
    ELSE LET got == use_num_records_p(T)
             T1 == [got.T EXCEPT !.recs = Put(@, got.res, Rec(ind, cols, FALSE)),
                                 !.page_directory = @ \cup {got.res}]
             T2 == IF T1.recs[base_rid].base
                   THEN [T1 EXCEPT !.recs[base_rid].ind = got.res] ELSE T1
             upd1 == IF columns = <<>> THEN [st |-> "ok", T |-> T2]
                     ELSE update_index(T2, columns[1], cols[1], base_rid)
             upd == IF columns = <<>> \/ upd1.st # "ok" THEN upd1
                    ELSE update_index_val(upd1.T, columns[2], cols[2], base_rid)
         IN  [st |-> upd.st, T |-> upd.T, rid |-> got.res]

\* Query.update, lines 286-307, first half: the copy of the base record that the
\* first update of a record appends to the tail pages.
UpdateCopy(T, l) ==
    IF l.bind = INDIRECTION_NULL
    THEN InsertToTail(T, l.rid, <<>>, l.rid, l.cols)
    ELSE [st |-> "ok", T |-> T, rid |-> l.prid]

\* Query.update, lines 286-307, second half: the cumulative columns and the tail
\* record, after the copy (its state, the table it left and the RID it points back to).
UpdateTail(copy, q, l) ==
    LET updated_cols == <<IF q.k2 # None THEN q.k2 ELSE l.cols[1],
                          IF q.v # None THEN q.v ELSE l.cols[2]>>
    IN  IF copy.st # "ok" THEN Out("raise", copy.T, NoLoc)
        ELSE LET tail == InsertToTail(copy.T, l.rid, l.cols, copy.rid, updated_cols)
             IN  Out(IF tail.st = "ok" THEN "true" ELSE "raise", tail.T, NoLoc)

\* Query.delete, lines 41-54: the index (created when missing), the lookup of the
\* key and the read of the latest record.
DeleteCheck(T, q) ==
    LET T1 == IF T.indexed THEN T ELSE create_index(T) IN
    IF ~locate(T1, q.k).found THEN Out("false", T1, NoLoc)
    ELSE LET rid == locate(T1, q.k).list[1]
             latest == get_latest_record(T1, rid)
         IN  IF latest.st = "raise" THEN Out("raise", T1, NoLoc)
             ELSE Out("go", T1, [NoLoc EXCEPT !.rid = rid, !.cols = latest.cols])

\* The page-directory entries delete_record removes while Query.delete walks the
\* indirection chain from the base RID (lines 57-65): "ok", or "spin" when the walk
\* reaches an RID without page-directory entry: delete_record then returns None,
\* which is neither the null indirection nor the base RID, for ever.
\* Faulty variant: only the first RID loses its page-directory entry.
DeleteChainFirstOnly(T, rid, base_rid) ==
    IF rid \notin T.page_directory THEN [st |-> "spin", T |-> T]
    ELSE [st |-> "ok", T |-> [T EXCEPT !.page_directory = @ \ {rid}]]

RECURSIVE DeleteChain(_, _, _)
DeleteChain(T, rid, base_rid) ==
    IF rid \notin T.page_directory THEN [st |-> "spin", T |-> T]
    ELSE LET nxt == T.recs[rid].ind
             T1 == [T EXCEPT !.page_directory = @ \ {rid}]
         IN  IF nxt = INDIRECTION_NULL \/ nxt = base_rid THEN [st |-> "ok", T |-> T1]
             ELSE DeleteChain(T1, nxt, base_rid)

\* Query.delete, lines 57-68.  latest_record is None (cols = <<>>) when the base RID
\* had no page-directory entry: to_array then raises.
DeleteWrite(T, q, l) ==
    LET chain == DeleteChain(T, l.rid, l.rid) IN
    IF chain.st = "spin" THEN Out("spin", chain.T, NoLoc)
    ELSE IF l.cols = <<>> THEN Out("raise", chain.T, NoLoc)
    ELSE Out("true",
             delete_index_val(delete_index(chain.T, l.cols[1], l.rid), l.cols[2], l.rid),
             NoLoc)

\* The records select_version(key, 0, [1, 1], 0) collects from the RIDs of the index
\* entry (lines 229-243): their number, or -1 when a read raises.
RECURSIVE SelectCount(_, _, _)
SelectCount(T, rids, i) ==
    IF i > Len(rids) THEN 0
    ELSE LET r == get_latest_record(T, rids[i])
             more == SelectCount(T, rids, i + 1)
         IN  IF r.st = "raise" \/ more < 0 THEN 0 - 1
             ELSE IF r.st = "none" THEN more ELSE more + 1

\* Query.select on the primary-key column, lines 196-245.  Without index: the index is
\* created when num_records is a multiple of CREATE_INDICES_CONDITION, otherwise the
\* base pages are scanned (there are none yet).
Select(T, q) ==
    LET T1 == IF T.indexed THEN T
              ELSE IF T.num_records % CREATE_INDICES_CONDITION = 0 THEN create_index(T)
              ELSE T
        n == IF T1.indexed THEN SelectCount(T1, T1.pkidx[q.k], 1) ELSE 0
    IN  IF n < 0 THEN [st |-> "raise", T |-> T1, res |-> ListResult(0)]
        ELSE [st |-> "ok", T |-> T1, res |-> ListResult(n)]

\* The loop of sum_version(start, end, 1, 0), lines 337-345: [found, total], found = -1
\* when a read raises (no index: None has no get; no record: None is added).
RECURSIVE SumLoop(_, _, _)
SumLoop(T, key, end) ==
    IF key > end THEN [found |-> 0, total |-> 0]
    ELSE IF ~T.indexed THEN [found |-> 0 - 1, total |-> 0]
    ELSE LET more == SumLoop(T, key + 1, end)
             rids == IF key \in Keys THEN T.pkidx[key] ELSE <<>>
         IN  IF more.found < 0 THEN more
             ELSE IF rids = <<>> THEN more
             ELSE LET r == get_latest_record(T, rids[1]) IN
                  IF r.st # "ok" THEN [found |-> 0 - 1, total |-> 0]
                  ELSE [found |-> more.found + 1, total |-> more.total + r.cols[2]]

\* Query.sum, lines 318-349.
SumQuery(T, q) ==
    LET s == SumLoop(T, q.k, q.k2) IN
    IF s.found < 0 THEN [st |-> "raise", T |-> T, res |-> BoolResult(FALSE)]
    ELSE IF s.found = 0 THEN [st |-> "ok", T |-> T, res |-> BoolResult(FALSE)]
    ELSE [st |-> "ok", T |-> T, res |-> IntResult(s.total)]

\* ------------------------------------------------------- the workload
\* A query of a transaction: the bound method (op) and its arguments.  insert(k, v);
\* update(k, k2, v) with k2 / v the new key / value or None; delete(k);
\* select(k, 0, [1, 1]); sum(k, k2, 1).  extra holds what __acquire_lock_for_insert
\* appended to the argument vector.
Query(op, k, k2, v) == [op |-> op, k |-> k, k2 |-> k2, v |-> v, extra |-> <<>>]
Ins(k, v) == Query("insert", k, None, v)
Upd(k, k2, v) == Query("update", k, k2, v)
Del(k) == Query("delete", k, None, None)
Sel(k) == Query("select", k, None, None)
Sum(lo, hi) == Query("sum", lo, hi, None)

\* The transactions a client may build with add_query.
Programs ==
    { <<Sel(1)>>,
      <<Sum(1, MaxKey)>>,
      <<Ins(2, 0)>>,
      <<Ins(1, MaxVal), Ins(1, MaxVal)>>,
      <<Upd(1, None, MaxVal)>>,
      <<Upd(1, 2, None)>>,
      <<Del(1)>>,
      <<Upd(1, None, 0), Upd(2, None, 0)>>,
      <<Upd(2, None, MaxVal), Upd(1, None, MaxVal)>>,
      <<Sel(1), Upd(1, None, MaxVal)>>,
      <<Sel(1), Upd(1, 2, None)>>,
      <<Ins(2, MaxVal), Upd(1, None, 0)>> }

\* Worker w runs the transactions WorkerTxns[w], in this order.
WorkerTxns == <<(<<1>>), (<<2>>)>>
Txns == {1, 2}

\* add_query gives a transaction its id on its first query, from the table's
\* transaction counter (use_num_transactions("w")): the transactions are numbered
\* 1, 2, ... in the order they were built.
TxnId(t) == t

CurTxn(w) == WorkerTxns[w][ti[w]]
CurId(w) == TxnId(CurTxn(w))
CurQuery(w) == queries[CurTxn(w)][qi[w]]
NumQueries(w) == Len(queries[CurTxn(w)])

\* ------------------------------------------------------------- Init
\* retval before Transaction.run has returned anything.
NotReturned == 0 - 2

\* The history of the current run of a worker's transaction: how many of its lock
\* helpers returned True, the RIDs of the lock requests that were granted, the
\* queries executed (their indices, in order) and what they returned, how many steps
\* changed pages, page directory or indices, and the path on which run returns;
\* finals are the values the worker's finished transactions returned last.
NewHist(finals) ==
    [granted |-> 0, locked |-> {}, executed |-> <<>>, results |-> <<>>, effects |-> 0,
     wrote |-> 0, cause |-> "none", finals |-> finals]

InitTable ==
    /\ locks = <<>>
    /\ lock_owners = <<>>
    /\ latch = Free
    /\ num_records = 0
    /\ page_directory = {}
    /\ recs = <<>>
    /\ pkidx = EmptyIndex
    /\ indexed = FALSE
    /\ index_lock = Free
    /\ num_page_ranges = 0
    /\ validx = [v \in Vals |-> <<>>]
    /\ vindexed = FALSE

InitWorkers ==
    /\ phase = "load"
    /\ pc = [w \in Workers |-> "idle"]
    /\ ti = [w \in Workers |-> 1]
    /\ qi = [w \in Workers |-> 1]
    /\ loc = [w \in Workers |-> NoLoc]
    /\ retval = [w \in Workers |-> NotReturned]
    /\ stats = [w \in Workers |-> <<>>]
    /\ result = [w \in Workers |-> 0]
    /\ hist = [w \in Workers |-> NewHist(<<>>)]

\* ------------------------------------------------- page ranges, pages and slots
\* The table with the place of every record: Table.num_records (the RID counter),
\* Table.num_page_ranges, Table.page_ranges_metadata (per page range the highest
\* base page number, -1 for none, and the highest tail page number,
\* MAX_BASE_PAGES - 1 for none), the pages (per (page range, page) the num_records of
\* its physical pages and the records written, by offset), Table.page_directory
\* (RID -> (page range, page, offset)) and the primary-key index.
\* PageCapacity is (PAGE_SIZE - PHYSICAL_PAGE_METADATA_SIZE) // COLUMN_SIZE, the
\* records a page holds; it and MAX_BASE_PAGES are scaled down so that a handful of
\* inserts fills pages and page ranges.
PageCapacity == 2
MAX_BASE_PAGES == 2
MaxPlaceKey == 5
PlaceKeys == 1..MaxPlaceKey
Threads == {1, 2}
QueryObjects == {1, 2}

EmptyPlaceIndex == [k \in PlaceKeys |-> <<>>]

EmptyStore ==
    [num_records |-> 0, num_page_ranges |-> 0, page_ranges_metadata |-> <<>>,
     pages |-> <<>>, page_directory |-> <<>>, indexed |-> FALSE,
     index |-> EmptyPlaceIndex]

\* A page as insert_base_page / insert_tail_page create it: zero bytes.
NewPage == [n |-> 0, slots |-> <<>>]

get_highest_base_page_num(S, pr) == S.page_ranges_metadata[pr + 1].bp
get_highest_tail_page_num(S, pr) == S.page_ranges_metadata[pr + 1].tp
get_highest_page_range_num(S) == S.num_page_ranges - 1

\* PhysicalPage.has_capacity of column 0 of the page.
page_has_capacity(S, pr, pg) == S.pages[<<pr, pg>>].n < PageCapacity

page_range_has_capacity(S, pr) ==
    \/ get_highest_base_page_num(S, pr) < MAX_BASE_PAGES - 1
    \/ page_has_capacity(S, pr, get_highest_base_page_num(S, pr))

\* create_page_range: the store it leaves and the page range number it returns.
create_page_range(S) ==
    LET max_pr_num == get_highest_page_range_num(S) IN
    IF max_pr_num # 0 - 1 /\ page_range_has_capacity(S, max_pr_num)
    THEN [S |-> S, pr |-> max_pr_num]
    ELSE [S |-> [S EXCEPT !.num_page_ranges = @ + 1,
                          !.page_ranges_metadata =
                              Append(@, [bp |-> 0 - 1, tp |-> MAX_BASE_PAGES - 1])],
          pr |-> max_pr_num + 1]

insert_base_page(S, pr) ==
    LET max_bp_num == get_highest_base_page_num(S, pr) IN
    IF max_bp_num # 0 - 1 /\ page_has_capacity(S, pr, max_bp_num) THEN S
    ELSE IF max_bp_num = MAX_BASE_PAGES - 1 THEN S
    ELSE [S EXCEPT !.pages = Put(@, <<pr, max_bp_num + 1>>, NewPage),
                   !.page_ranges_metadata[pr + 1].bp = @ + 1]

insert_tail_page(S, pr) ==
    LET tail_page_num == get_highest_tail_page_num(S, pr) IN
    IF tail_page_num # MAX_BASE_PAGES - 1 /\ page_has_capacity(S, pr, tail_page_num) THEN S
    ELSE [S EXCEPT !.pages = Put(@, <<pr, tail_page_num + 1>>, NewPage),
                   !.page_ranges_metadata[pr + 1].tp = @ + 1]

\* A record as it lies in a slot, and the slot a read finds: zero bytes where
\* nothing was written.
Slot(rid, ind, cols) == [rid |-> rid, ind |-> ind, cols |-> cols]
ZeroSlot == Slot(0, 0, <<0, 0>>)

SlotAt(S, place) ==
    LET page == S.pages[<<place[1], place[2]>>] IN
    IF place[3] \in DOMAIN page.slots THEN page.slots[place[3]] ELSE ZeroSlot

\* Page.write(record, offset): nothing is written beyond the last offset of a page.
PageWrite(S, pr, pg, offset, rec) ==
    IF offset > PageCapacity - 1 THEN S
    ELSE [S EXCEPT !.pages[<<pr, pg>>].slots = Put(@, offset, rec)]

\* Query.insert, lines 92-143 (under insert_lock): the RID, the page range and base
\* page chosen (created when the last one is full), and the offset read off the
\* page's num_records.  The first insert also writes a page-directory entry and
\* creates the primary-key index, empty since the base page holds no record yet.
PlaceReserve(S) ==
    LET rid == S.num_records
        S0 == [S EXCEPT !.num_records = @ + 1]
        made == create_page_range(S0)
        S1 == [insert_base_page(made.S, made.pr)
                 EXCEPT !.page_directory = Put(@, rid, <<made.pr, 0, 0>>),
                        !.indexed = TRUE, !.index = EmptyPlaceIndex]
        last_pr == S0.num_page_ranges - 1
        full == ~page_range_has_capacity(S0, last_pr)
        next == create_page_range(S0)
        S2 == IF full THEN insert_base_page(next.S, next.pr) ELSE S0
        pr == IF full THEN next.pr ELSE last_pr
        bp_num == get_highest_base_page_num(S2, pr)
        more == ~page_has_capacity(S2, pr, bp_num)
        S3 == IF more THEN insert_base_page(S2, pr) ELSE S2
        bp == IF more THEN bp_num + 1 ELSE bp_num
    IN  IF S0.num_page_ranges = 0
        THEN [S |-> S1, rid |-> rid, pr |-> made.pr, pg |-> 0,
              offset |-> S1.pages[<<made.pr, 0>>].n]
        ELSE [S |-> S3, rid |-> rid, pr |-> pr, pg |-> bp,
              offset |-> S3.pages[<<pr, bp>>].n]

\* Faulty variant: num_records stays what it was.
PlaceIncrementNone(S, pr, pg) == S

\* "for p in page.columns: p.num_records += 1" (lines 144-145 and 400-401).
PlaceIncrement(S, pr, pg) == [S EXCEPT !.pages[<<pr, pg>>].n = @ + 1]

\* Query.insert, lines 149-167: the record, its page-directory entry, its index entry.
PlaceWrite(S, l, k, v) ==
    LET written == PageWrite(S, l.pr, l.pg, l.offset, Slot(l.rid, INDIRECTION_NULL, <<k, v>>))
        mapped == [written EXCEPT !.page_directory = Put(@, l.rid, <<l.pr, l.pg, l.offset>>)]
    IN  IF ~mapped.indexed THEN mapped
        ELSE [mapped EXCEPT !.index[k] = Append(@, l.rid)]

\* __insert_to_tail_page, lines 372-399 (under update_lock): the RID, the tail page of
\* the base record's page range (created when there is none or the last one is
\* full), and the offset read off its num_records.
TailReserve(S, base_rid) ==
    LET pr == S.page_directory[base_rid][1]
        rid == S.num_records
        S0 == [S EXCEPT !.num_records = @ + 1]
        tail_page_num == get_highest_tail_page_num(S0, pr)
        more == \/ tail_page_num = MAX_BASE_PAGES - 1
                \/ ~page_has_capacity(S0, pr, tail_page_num)
        S1 == IF more THEN insert_tail_page(S0, pr) ELSE S0
        tp == IF more THEN tail_page_num + 1 ELSE tail_page_num
    IN  [S |-> S1, rid |-> rid, pr |-> pr, pg |-> tp, offset |-> S1.pages[<<pr, tp>>].n]

\* __insert_to_tail_page, lines 406-441: the tail record, its page-directory entry
\* and the base record's indirection (change_indirection); the value column has no
\* index.
TailWrite(S, l, ind, cols) ==
    LET written == PageWrite(S, l.pr, l.pg, l.offset, Slot(l.rid, ind, cols))
        mapped == [written EXCEPT !.page_directory = Put(@, l.rid, <<l.pr, l.pg, l.offset>>)]
        base == mapped.page_directory[l.base]
    IN  IF base[2] >= MAX_BASE_PAGES THEN mapped
        ELSE PageWrite(mapped, base[1], base[2], base[3],
                       [SlotAt(mapped, base) EXCEPT !.ind = l.rid])

\* get_record_version(rid, 0) on the stored pages, TPS 0: the latest record of a
\* base RID, "none" for an RID without page-directory entry or of a tail page.
PlacedLatest(S, rid) ==
    IF rid \notin DOMAIN S.page_directory THEN [st |-> "none", rec |-> ZeroSlot]
    ELSE IF S.page_directory[rid][2] >= MAX_BASE_PAGES THEN [st |-> "none", rec |-> ZeroSlot]
    ELSE LET base == SlotAt(S, S.page_directory[rid]) IN
         IF base.ind <= 0 THEN [st |-> "ok", rec |-> base]
         ELSE IF base.ind \notin DOMAIN S.page_directory THEN [st |-> "raise", rec |-> ZeroSlot]
         ELSE [st |-> "ok", rec |-> SlotAt(S, S.page_directory[base.ind])]

\* Query.select(key, 0, [1, 1]) on the stored pages: the columns of the records found.
RECURSIVE PlacedRows(_, _, _)
PlacedRows(S, rids, i) ==
    IF i > Len(rids) THEN <<>>
    ELSE LET r == PlacedLatest(S, rids[i]) IN
         IF r.st = "ok" THEN <<r.rec.cols>> \o PlacedRows(S, rids, i + 1)
         ELSE PlacedRows(S, rids, i + 1)

PlacedSelect(S, key) == IF ~S.indexed THEN <<>> ELSE PlacedRows(S, S.index[key], 1)

\* A thread before it is started, and the locks of a Query object nobody holds.
NoPlace == [rid |-> None, pr |-> 0, pg |-> 0, offset |-> 0, base |-> None,
            cols |-> <<>>, prid |-> None]
IdleThread == [pc |-> "idle", k |-> 0, v |-> 0, query |-> 1, loc |-> NoPlace]
FreeLocks == [insert_lock |-> Free, update_lock |-> Free]

InitPlace ==
    /\ store = EmptyStore
    /\ threads = [t \in Threads |-> IdleThread]
    /\ qlocks = [o \in QueryObjects |-> FreeLocks]
    /\ placed = [inserted |-> <<>>, sel |-> None, rows |-> <<>>]

\* ------------------------------------------------------------- Bufferpool
\* max_capacity (BUFFERPOOL_SIZE) in physical pages, the paths of the physical pages
\* on disk, the threads that use the bufferpool, and the number of PhysicalPage
\* objects __fetch_phys_page creates.
PoolCapacity == 2
MaxPath == 3
Paths == 1..MaxPath
Fetchers == {1, 2, 3}
MaxObj == 4

\* Bufferpool.__init__: no page, empty LRU queue, evict_lock free, no page lock.
\* objs are the PhysicalPage objects created so far: their path and pin_count;
\* lock_objs are the threading.Lock objects created so far and their holders, where
\* the model tells the lock objects of a path apart.
EmptyPool ==
    [pages |-> <<>>, lru_pages |-> <<>>, evict_lock |-> Free, page_locks |-> <<>>,
     objs |-> <<>>, lock_objs |-> <<>>]

IdleFetcher == [pc |-> "idle", path |-> 0, obj |-> 0, victim |-> 0, lock |-> 0]

InitPool ==
    /\ pool = EmptyPool
    /\ fetchers = [t \in Fetchers |-> IdleFetcher]

\* has_capacity
has_capacity(P) == Cardinality(DOMAIN P.pages) # PoolCapacity

\* The loop of __evict, lines 364-372: the first path of the LRU queue whose page has
\* pin count 0; 0 when every page is pinned.
RECURSIVE FirstUnpinned(_, _)
FirstUnpinned(P, i) ==
    IF i > Len(P.lru_pages) THEN 0
    ELSE IF P.objs[P.pages[P.lru_pages[i]]].pin = 0 THEN P.lru_pages[i]
    ELSE FirstUnpinned(P, i + 1)

\* ------------------------------------------------- the bytes of the cached pages
\* A physical page file: one record slot and the num_updates field of the header.
\* Page files are created zeroed (bytearray(PAGE_SIZE)) before any page is fetched.
ZeroFile == [slot |-> 0, hdr |-> 0]

\* PhysicalPage.data is slot and hdr; attr is the attribute PhysicalPage.num_updates,
\* which __fetch_phys_page parses from the header and PhysicalPage.write copies back
\* into the header.
Bytes(page) == [slot |-> page.slot, hdr |-> page.hdr]

\* Bufferpool.__init__ with every page file on disk; no call made yet.
InitCache ==
    cache = [pages |-> <<>>, lru_pages |-> <<>>, disk |-> [p \in Paths |-> ZeroFile],
             read |-> [path |-> 0, slot |-> 0, hdr |-> 0]]

\* ------------------------------------------------------- the state of the merge
\* The number of updates of a base page after which a merge is requested, the keys,
\* the tail records and the pins the model follows.
MERGE_CONDITION == 1
MaxMergeKey == 3
MergeKeys == 1..MaxMergeKey
MaxTailRecords == 4
MaxPin == 2

\* No update is between its two tail inserts; no merge has run.
NoUpdate == [on |-> FALSE]
NoMerge == [kind |-> "none"]

\* Table.__init__ and the first page range: base page 0 without records, no tail
\* page, an empty primary-key index, an empty merge queue. base holds the metadata
\* columns of the base page, data the data columns of its PhysicalPage objects,
\* file the files of the data columns; tps and num_updates are header fields of the
\* RID column, pin the pin count of the physical pages of the base page.
ZeroData == [s \in 1..PageCapacity |-> [key |-> 0, val |-> 0]]

InitMerge ==
    mg = [num_records |-> 0, base |-> <<>>, data |-> ZeroData, file |-> ZeroData,
          resident |-> TRUE, is_dirty |-> FALSE, tps |-> 0, num_updates |-> 0,
          pin |-> 0, tails |-> <<>>, index |-> <<>>, queue |-> 0, runners |-> 0,
          upd |-> NoUpdate, merged |-> NoMerge]

\* ------------------------------------------------------- the schema encoding
\* No record has been inserted.
InitEncoding == enc = <<>>

\* ------------------------------------------------------------ the merge queue
\* The threads that Query.__insert_to_tail_page starts for Table.merge, the entries
\* (base pages) it enqueues and the length of the queue the model follows.
MergeThreads == {1, 2}
MaxBasePage == 2
MaxQueue == 2
MaxMerges == 3

\* Table.__init__: an empty merge queue; no thread started, no merge done.
InitQueue ==
    mq = [queue |-> <<>>, pc |-> [t \in MergeThreads |-> "none"],
          entry |-> [t \in MergeThreads |-> 0], merged |-> <<>>, enqueued |-> <<>>]

\* The main thread has made no call yet.
NoCall == [op |-> "none"]

InitSeq ==
    /\ insert_lock = Free
    /\ shadow = <<>>
    /\ lastcall = NoCall

InitOther ==
    /\ InitSeq
    /\ InitPlace
    /\ InitPool
    /\ InitCache
    /\ InitMerge
    /\ InitEncoding
    /\ InitQueue

Init ==
    /\ InitTable
    /\ InitWorkers
    /\ InitOther
    /\ queries \in [Txns -> Programs]

\* ------------------------------------------------------------- the main thread
\* A direct Query.insert(k, v) by the main thread while no worker runs: the whole
\* call.
DirectInsert(k, v) ==
    /\ phase = "load"
    /\ num_records < MaxRid
    /\ LET T == TableState
           q == Ins(k, v)
           first == InsertReserve(T, q)
       IN  IF first.st = "false" THEN SetTable(T)
           ELSE SetTable(InsertWrite(first.T, q, first.loc).T)
    /\ UNCHANGED <<lmVars, queries, phase, pc, ti, qi, loc, retval, stats, result, hist, otherVars>>

\* TransactionWorker.run for every worker: the threads start, each with the first run
\* of its first transaction.
StartWorkers ==
    /\ phase = "load"
    /\ phase' = "run"
    /\ pc' = [w \in Workers |-> "acq"]
    /\ UNCHANGED <<lmVars, tableVars, queries, ti, qi, loc, retval, stats, result, hist, otherVars>>

\* ------------------------------------------------------------- Transaction
\* The lock request of one query, as __acquire_all_locks computes it: st = "granted"
\* (no RID to lock: the helper returns True), "lock" (the RIDs to request, in mode S
\* or X), or "integrity" (the helper returns -1); T is the table it leaves.
Plan(st, mode, rids, T) == [st |-> st, mode |-> mode, rids |-> rids, T |-> T]

\* __acquire_lock_for_select, search column = primary key.
acquire_lock_for_select(T, q) ==
    LET rids == IF T.indexed THEN locate(T, q.k) ELSE get_all_base_rids(T) IN
    IF ~rids.found THEN Plan("granted", "-", <<>>, T)
    ELSE Plan("lock", "S", rids.list, T)

\* __acquire_lock_for_sum
acquire_lock_for_sum(T, q) ==
    LET rids == locate_range(T, q.k, q.k2) IN
    IF ~rids.found THEN Plan("granted", "-", <<>>, T)
    ELSE Plan("lock", "S", rids.list, T)

\* __acquire_lock_for_insert, lines 152-169: the duplicate check and the RID.
acquire_lock_for_insert(T, q) ==
    IF T.indexed /\ locate(T, q.k).found THEN Plan("integrity", "-", <<>>, T)
    ELSE LET got == use_num_records_p(T) IN Plan("lock", "X", <<got.res>>, got.T)

\* __acquire_lock_for_update, lines 178-198.  The variable rid holds the lookup of the
\* NEW key when the update changes the primary key, of the record's key otherwise.
acquire_lock_for_update(T, q) ==
    LET changes == q.k2 # None /\ q.k2 # q.k
        rid == IF changes THEN locate(T, q.k2) ELSE locate(T, q.k)
    IN  IF changes /\ rid.found THEN Plan("integrity", "-", <<>>, T)
        ELSE IF ~rid.found THEN Plan("granted", "-", <<>>, T)
        ELSE Plan("lock", "X", rid.list, T)

\* __acquire_lock_for_delete
acquire_lock_for_delete(T, q) ==
    LET rid == locate(T, q.k) IN
    IF ~rid.found THEN Plan("granted", "-", <<>>, T)
    ELSE Plan("lock", "X", rid.list, T)

\* Faulty variant: each query is executed as soon as its own lock request was granted.
AfterGrantExecutingAtOnce(n, i) == [pc |-> "exec", qi |-> i]

\* Where Transaction.run goes on after the lock request of query i of n was granted:
\* the next lock request, or the first query once every request was granted.
AfterGrant(n, i) ==
    IF i < n THEN [pc |-> "acq", qi |-> i + 1] ELSE [pc |-> "exec", qi |-> 1]

\* Faulty variant: the integrity path returns -1 without releasing.
run_exit_integrity_keeps_locks(cause) ==
    CASE cause = "lock" -> [release |-> TRUE, ret |-> 0]
      [] cause = "integrity" -> [release |-> FALSE, ret |-> 0 - 1]
      [] cause = "query" -> [release |-> TRUE, ret |-> 0 - 1]
      [] cause = "commit" -> [release |-> TRUE, ret |-> 1]

\* How Transaction.run returns: whether it calls release_held_locks first and the
\* value it returns, for a rejected lock request (return self.abort()), an integrity
\* violation of the pre-acquire phase, a query whose result is falsy ("if not
\* query(*args): self.abort(); return -1") and the commit.
run_exit(cause) ==
    CASE cause = "lock" -> [release |-> TRUE, ret |-> 0]
      [] cause = "integrity" -> [release |-> TRUE, ret |-> 0 - 1]
      [] cause = "query" -> [release |-> TRUE, ret |-> 0 - 1]
      [] cause = "commit" -> [release |-> TRUE, ret |-> 1]

\* What run does with the result r of query i of n.
AfterQuery(n, i, r) ==
    IF PyNot(r) THEN "query" ELSE IF i < n THEN "next" ELSE "commit"

\* --- pieces of a worker's step: the control state the step leaves
Leave(w, cause, h) ==
    LET e == run_exit(cause) IN
    /\ pc' = [pc EXCEPT ![w] = IF e.release THEN "release" ELSE "ret"]
    /\ retval' = [retval EXCEPT ![w] = e.ret]
    /\ hist' = [hist EXCEPT ![w] = [h EXCEPT !.cause = cause]]
    /\ loc' = loc
    /\ qi' = qi

Granted(w, h) ==
    LET nx == AfterGrant(NumQueries(w), qi[w]) IN
    /\ pc' = [pc EXCEPT ![w] = nx.pc]
    /\ qi' = [qi EXCEPT ![w] = nx.qi]
    /\ hist' = [hist EXCEPT ![w] = [h EXCEPT !.granted = @ + 1]]
    /\ loc' = [loc EXCEPT ![w] = NoLoc]
    /\ retval' = retval

Returned(w, r, h) ==
    LET h1 == [h EXCEPT !.executed = Append(@, qi[w]), !.results = Append(@, r)]
        nx == AfterQuery(NumQueries(w), qi[w], r)
    IN  IF nx = "next"
        THEN /\ pc' = [pc EXCEPT ![w] = "exec"]
             /\ qi' = [qi EXCEPT ![w] = @ + 1]
             /\ hist' = [hist EXCEPT ![w] = h1]
             /\ loc' = [loc EXCEPT ![w] = NoLoc]
             /\ retval' = retval
        ELSE Leave(w, nx, h1)

GoOn(w, l, h) ==
    /\ pc' = [pc EXCEPT ![w] = "write"]
    /\ loc' = [loc EXCEPT ![w] = l]
    /\ hist' = [hist EXCEPT ![w] = h]
    /\ UNCHANGED <<qi, retval>>

\* An uncaught exception ends the thread ("crashed"); a loop that never ends keeps it
\* ("hung").  Either way run never returns and the transaction's locks stay.
Stop(w, how, h) ==
    /\ pc' = [pc EXCEPT ![w] = how]
    /\ hist' = [hist EXCEPT ![w] = h]
    /\ UNCHANGED <<qi, retval, loc>>

\* The history after a step that turned table T into T1.
Effect(w, T, T1) ==
    [hist[w] EXCEPT !.effects = @ + (IF Stored(T1) # Stored(T) THEN 1 ELSE 0),
                    !.wrote = @ + (IF Written(T1) # Written(T) THEN 1 ELSE 0)]

\* The step of a query: o is what the query's step operator returned.
QueryStep(w, T, o, res) ==
    /\ SetTable(o.T)
    /\ CASE o.st = "go" -> GoOn(w, o.loc, Effect(w, T, o.T))
         [] o.st = "raise" -> Stop(w, "crashed", Effect(w, T, o.T))
         [] o.st = "spin" -> Stop(w, "hung", Effect(w, T, o.T))
         [] OTHER -> Returned(w, res, Effect(w, T, o.T))
    /\ UNCHANGED <<lmVars, queries, phase, ti, stats, result, otherVars>>

\* --- the pre-acquire phase: one lock helper up to its lock-manager call
PreAcquire(w, op, plan) ==
    /\ phase = "run" /\ pc[w] = "acq" /\ CurQuery(w).op = op
    /\ index_lock = Free
    /\ SetTable(plan.T)
    /\ CASE plan.st = "integrity" -> Leave(w, "integrity", Effect(w, TableState, plan.T))
         [] plan.st = "granted" -> Granted(w, Effect(w, TableState, plan.T))
         [] plan.st = "lock" ->
              /\ pc' = [pc EXCEPT ![w] = "lock"]
              /\ loc' = [loc EXCEPT ![w] = [NoLoc EXCEPT !.rids = plan.rids,
                                                         !.mode = plan.mode]]
              /\ hist' = [hist EXCEPT ![w] = Effect(w, TableState, plan.T)]
              /\ UNCHANGED <<qi, retval>>
    /\ UNCHANGED <<lmVars, queries, phase, ti, stats, result, otherVars>>

PreAcquireSelect(w) ==
    PreAcquire(w, "select", acquire_lock_for_select(TableState, CurQuery(w)))

PreAcquireSum(w) ==
    PreAcquire(w, "sum", acquire_lock_for_sum(TableState, CurQuery(w)))

PreAcquireInsert(w) ==
    /\ num_records < MaxRid
    /\ PreAcquire(w, "insert", acquire_lock_for_insert(TableState, CurQuery(w)))

PreAcquireUpdate(w) ==
    PreAcquire(w, "update", acquire_lock_for_update(TableState, CurQuery(w)))

PreAcquireDelete(w) ==
    PreAcquire(w, "delete", acquire_lock_for_delete(TableState, CurQuery(w)))

\* --- the lock-manager calls, each under the latch
\* The request of a lock helper; a granted insert request appends the RID to the
\* query's arguments (lines 172-174).
LockRequest(w, mode, r) ==
    /\ phase = "run" /\ pc[w] = "lock" /\ loc[w].mode = mode
    /\ latch = Free
    /\ locks' = r.locks
    /\ lock_owners' = r.owners
    /\ latch' = r.latch
    /\ IF r.ok
       THEN /\ Granted(w, [hist[w] EXCEPT !.locked =
                                    @ \cup {loc[w].rids[i] : i \in 1..Len(loc[w].rids)}])
            /\ queries' = IF CurQuery(w).op = "insert"
                          THEN [queries EXCEPT ![CurTxn(w)][qi[w]].extra =
                                                  Append(@, loc[w].rids[1])]
                          ELSE queries
       ELSE /\ Leave(w, "lock", hist[w])
            /\ queries' = queries
    /\ UNCHANGED <<tableVars, phase, ti, stats, result, otherVars>>

LockShared(w) ==
    LockRequest(w, "S", acquire_shared_lock(locks, lock_owners, loc[w].rids, CurId(w)))

LockExclusive(w) ==
    LockRequest(w, "X", acquire_exclusive_lock(locks, lock_owners, loc[w].rids, CurId(w)))

\* release_held_locks as abort, commit and the integrity path of run call it; run
\* returns after it.
ReleaseLocks(w) ==
    /\ phase = "run" /\ pc[w] = "release"
    /\ latch = Free
    /\ LET r == release_held_locks(locks, lock_owners, CurId(w)) IN
       /\ locks' = r.locks
       /\ lock_owners' = r.owners
       /\ latch' = r.latch
    /\ pc' = [pc EXCEPT ![w] = "ret"]
    /\ UNCHANGED <<tableVars, queries, phase, ti, qi, loc, retval, stats, result, hist, otherVars>>

\* --- the execute phase
Executing(w, op, at) == phase = "run" /\ pc[w] = at /\ CurQuery(w).op = op

ExecSelect(w) ==
    /\ Executing(w, "select", "exec")
    /\ indexed \/ index_lock = Free
    /\ \E o \in {Select(TableState, CurQuery(w))} :
          QueryStep(w, TableState, o, o.res)

ExecSum(w) ==
    /\ Executing(w, "sum", "exec")
    /\ \E o \in {SumQuery(TableState, CurQuery(w))} :
          QueryStep(w, TableState, o, o.res)

ExecInsertReserve(w) ==
    /\ Executing(w, "insert", "exec")
    /\ index_lock = Free
    /\ Len(CurQuery(w).extra) > 0 \/ num_records < MaxRid
    /\ \E o \in {InsertReserve(TableState, CurQuery(w))} :
          QueryStep(w, TableState, o, BoolResult(o.st = "true"))

ExecInsertWrite(w) ==
    /\ Executing(w, "insert", "write")
    /\ index_lock = Free
    /\ \E o \in {InsertWrite(TableState, CurQuery(w), loc[w])} :
          QueryStep(w, TableState, o, BoolResult(o.st = "true"))

ExecUpdateCheck(w) ==
    /\ Executing(w, "update", "exec")
    /\ index_lock = Free
    /\ \E o \in {UpdateCheck(TableState, CurQuery(w))} :
          QueryStep(w, TableState, o, BoolResult(o.st = "true"))

ExecUpdateWrite(w) ==
    /\ Executing(w, "update", "write")
    /\ index_lock = Free
    /\ num_records + 2 <= MaxRid
    /\ \E copy \in {UpdateCopy(TableState, loc[w])} :
       \E o \in {UpdateTail(copy, CurQuery(w), loc[w])} :
          QueryStep(w, TableState, o, BoolResult(o.st = "true"))

ExecDeleteCheck(w) ==
    /\ Executing(w, "delete", "exec")
    /\ index_lock = Free
    /\ \E o \in {DeleteCheck(TableState, CurQuery(w))} :
          QueryStep(w, TableState, o, BoolResult(o.st = "true"))

ExecDeleteWrite(w) ==
    /\ Executing(w, "delete", "write")
    /\ index_lock = Free
    /\ \E o \in {DeleteWrite(TableState, CurQuery(w), loc[w])} :
          QueryStep(w, TableState, o, BoolResult(o.st = "true"))

\* ------------------------------------------------------------- TransactionWorker
\* stats.append(b).  The list keeps at most MaxFalse False entries: further ones are
\* not recorded (the result counts the truthy entries only).
AppendStat(st, b) ==
    IF ~b /\ Cardinality({i \in 1..Len(st) : ~st[i]}) >= MaxFalse THEN st
    ELSE Append(st, b)

\* One pass of the "while True" loop of __run on the value val that run returned:
\* the stats it leaves and whether the worker moves on to its next transaction
\* ("break", after which stats.append(True) runs) or runs the transaction again.
worker_on_return(val, st) ==
    IF PyTruthy(val) THEN [stats |-> AppendStat(st, TRUE), advance |-> TRUE]
    ELSE IF val = 0 - 1
    THEN [stats |-> AppendStat(AppendStat(st, FALSE), TRUE), advance |-> TRUE]
    ELSE [stats |-> AppendStat(st, FALSE), advance |-> FALSE]

\* len(list(filter(lambda x: x, self.stats)))
worker_result(st) == Cardinality({i \in 1..Len(st) : st[i]})

\* The worker's loop between two calls of Transaction.run: it records what the run
\* returned, then runs the same transaction again, starts its next one, or sets
\* result and ends.
WorkerLoop(w) ==
    /\ phase = "run" /\ pc[w] = "ret"
    /\ LET o == worker_on_return(retval[w], stats[w])
           finals == Append(hist[w].finals, retval[w])
           last == ti[w] = Len(WorkerTxns[w])
       IN  /\ stats' = [stats EXCEPT ![w] = o.stats]
           /\ IF ~o.advance
              THEN /\ pc' = [pc EXCEPT ![w] = "acq"]
                   /\ hist' = [hist EXCEPT ![w] = NewHist(hist[w].finals)]
                   /\ UNCHANGED <<ti, result>>
              ELSE /\ hist' = [hist EXCEPT ![w] = NewHist(finals)]
                   /\ IF last
                      THEN /\ pc' = [pc EXCEPT ![w] = "done"]
                           /\ result' = [result EXCEPT ![w] = worker_result(o.stats)]
                           /\ ti' = ti
                      ELSE /\ pc' = [pc EXCEPT ![w] = "acq"]
                           /\ ti' = [ti EXCEPT ![w] = @ + 1]
                           /\ result' = result
    /\ qi' = [qi EXCEPT ![w] = 1]
    /\ retval' = [retval EXCEPT ![w] = NotReturned]
    /\ loc' = [loc EXCEPT ![w] = NoLoc]
    /\ UNCHANGED <<lmVars, tableVars, queries, phase, otherVars>>

\* ------------------------------------------------------------- specification
WorkerStep(w) ==
    \/ PreAcquireSelect(w)
    \/ PreAcquireSum(w)
    \/ PreAcquireInsert(w)
    \/ PreAcquireUpdate(w)
    \/ PreAcquireDelete(w)
    \/ LockShared(w)
    \/ LockExclusive(w)
    \/ ReleaseLocks(w)
    \/ ExecSelect(w)
    \/ ExecSum(w)
    \/ ExecInsertReserve(w)
    \/ ExecInsertWrite(w)
    \/ ExecUpdateCheck(w)
    \/ ExecUpdateWrite(w)
    \/ ExecDeleteCheck(w)
    \/ ExecDeleteWrite(w)
    \/ WorkerLoop(w)

Next ==
    \/ \E k \in Keys, v \in Vals : DirectInsert(k, v)
    \/ StartWorkers
    \/ \E w \in Workers : WorkerStep(w)

Spec == Init /\ [][Next]_vars

\* The retry loop under fair scheduling: transactions made of updates only (their
\* pre-acquire phase allocates nothing, so a retry returns to a state seen before),
\* every thread that can take a step eventually takes one.
LivePrograms ==
    { <<Upd(1, None, 0), Upd(2, None, 0)>>,
      <<Upd(2, None, MaxVal), Upd(1, None, MaxVal)>> }

InitLive ==
    /\ InitTable
    /\ InitWorkers
    /\ InitOther
    /\ queries \in [Txns -> LivePrograms]

WorkerStepLive(w) ==
    \/ PreAcquireUpdate(w)
    \/ LockExclusive(w)
    \/ ReleaseLocks(w)
    \/ ExecUpdateCheck(w)
    \/ ExecUpdateWrite(w)
    \/ WorkerLoop(w)

NextLive ==
    \/ \E k \in Keys, v \in Vals : DirectInsert(k, v)
    \/ StartWorkers
    \/ \E w \in Workers : WorkerStepLive(w)

LiveSpec ==
    /\ InitLive
    /\ [][NextLive]_vars
    /\ WF_vars(StartWorkers)
    /\ \A w \in Workers : WF_vars(WorkerStepLive(w))

\* ------------------------------------------------------------- properties
Running == phase = "run"

Holds(t, rid, mode) ==
    rid \in DOMAIN locks /\ \E i \in 1..Len(locks[rid]) : locks[rid][i] = Lock(mode, t)

HoldsAny(t, rid) == Holds(t, rid, "S") \/ Holds(t, rid, "X")

\* No entry of the lock table and no mapping of lock_owners belongs to t.
OwnsNothing(t) ==
    /\ t \notin DOMAIN lock_owners
    /\ \A rid \in DOMAIN locks : \A i \in 1..Len(locks[rid]) : locks[rid][i].tid # t

Elems(seq) == {seq[i] : i \in 1..Len(seq)}

\* C1: in every reachable state, for every RID, an X entry of one transaction is never
\* accompanied by an entry (S or X) of another transaction.
C1_ExclusiveExcludesOthers ==
    \A rid \in DOMAIN locks : \A i, j \in 1..Len(locks[rid]) :
        locks[rid][i].mode = "X" => locks[rid][j].tid = locks[rid][i].tid

\* A lock request was just rejected on an RID that another transaction holds in X.
C1_Witness ==
    \E w \in Workers :
        /\ pc[w] = "release" /\ hist[w].cause = "lock"
        /\ \E rid \in Elems(loc[w].rids) : \E t \in Txns :
              TxnId(t) # CurId(w) /\ Holds(TxnId(t), rid, "X")

\* C2: strict two-phase locking in run: while a query executes, every lock helper of
\* the transaction has returned True, the queries before it were executed in the
\* order they were added, and every lock granted in this run is still held, up to the
\* release that follows the last executed query.
C2_StrictTwoPhase ==
    \A w \in Workers :
        (Running /\ pc[w] \in {"exec", "write", "release"}) =>
            /\ pc[w] \in {"exec", "write"} => hist[w].granted = NumQueries(w)
            /\ pc[w] \in {"exec", "write"} =>
                   hist[w].executed = [i \in 1..(qi[w] - 1) |-> i]
            /\ hist[w].executed # <<>> => hist[w].granted = NumQueries(w)
            /\ \A rid \in hist[w].locked : HoldsAny(CurId(w), rid)

\* The second query of a transaction is about to execute, under two granted locks.
C2_Witness ==
    \E w \in Workers :
        /\ pc[w] = "exec" /\ qi[w] = 2
        /\ Cardinality(hist[w].locked) = 2
        /\ hist[w].executed = <<1>>

\* C3: whenever run has returned (1, 0 or -1), the lock table has no entry of the
\* transaction and lock_owners no mapping for it.
C3_NoLocksAfterRun ==
    \A w \in Workers :
        (Running /\ pc[w] \in {"ret", "done"}) => OwnsNothing(CurId(w))

\* run returned False after some of its lock requests had been granted.
C3_Witness ==
    \E w \in Workers :
        /\ pc[w] = "ret" /\ retval[w] = 0
        /\ hist[w].locked # {}

\* C4: the latch is free whenever no lock-manager call is running, so every thread at
\* a lock-manager call (a lock request or a release) can run it at once, whatever
\* locks the other transactions hold: no thread waits for a lock.
C4_NoWaiting ==
    /\ latch = Free
    /\ \A w \in Workers :
          (Running /\ pc[w] \in {"lock", "release"}) =>
              ENABLED (LockShared(w) \/ LockExclusive(w) \/ ReleaseLocks(w))

\* A rejected request (the transaction is about to release) while the other
\* transaction holds locks and is itself at a lock request.
C4_Witness ==
    \E w, u \in Workers :
        /\ w # u
        /\ pc[w] = "release" /\ hist[w].cause = "lock" /\ hist[w].locked # {}
        /\ pc[u] = "lock" /\ hist[u].locked # {}

\* C5: under fair scheduling every worker eventually leaves the retry loop of each of
\* its transactions, and so ends.
C5_EveryWorkerEnds == \A w \in Workers : <>(pc[w] = "done")

\* C6: when every lock was granted and a query returns False, run returns False.
C6_FalseQueryReturnsFalse ==
    \A w \in Workers :
        ( /\ Running /\ pc[w] = "ret"
          /\ hist[w].granted = NumQueries(w)
          /\ \E i \in 1..Len(hist[w].results) : IsFalse(hist[w].results[i]) )
        => retval[w] = 0

\* C7: when every lock was granted and no query returned False (an empty list or a
\* sum of 0 is not False), run returns True.
C7_CommitsUnlessFalse ==
    \A w \in Workers :
        ( /\ Running /\ pc[w] = "ret"
          /\ hist[w].granted = NumQueries(w)
          /\ \A i \in 1..Len(hist[w].results) : ~IsFalse(hist[w].results[i]) )
        => retval[w] = 1

\* C8: when the pre-acquire phase finds an integrity violation, run returns -1, has
\* executed no query and changed neither pages, page directory nor indices, and the
\* transaction holds no lock afterwards.
C8_IntegrityViolation ==
    \A w \in Workers :
        (Running /\ pc[w] = "ret" /\ hist[w].cause = "integrity") =>
            /\ retval[w] = 0 - 1
            /\ hist[w].executed = <<>>
            /\ hist[w].effects = 0
            /\ OwnsNothing(CurId(w))

\* run returned on the integrity path after locks of earlier queries were granted.
C8_Witness ==
    \E w \in Workers :
        /\ pc[w] = "ret" /\ hist[w].cause = "integrity"
        /\ hist[w].locked # {}

\* C9: once a worker has ended, its result is the number of its transactions whose
\* last run returned True.
C9_ResultCountsCommits ==
    \A w \in Workers :
        pc[w] = "done" =>
            result[w] = Cardinality({i \in 1..Len(hist[w].finals) : hist[w].finals[i] = 1})

\* C10: while an update or delete of a transaction works on an existing record, the
\* transaction holds an X lock on the record's base RID.
C10_WritesUnderExclusiveLock ==
    \A w \in Workers :
        (Running /\ pc[w] = "write" /\ CurQuery(w).op \in {"update", "delete"}) =>
            Holds(CurId(w), loc[w].rid, "X")

\* The base records select_version / sum_version read for query q on table T: the
\* RIDs of the index entry of the key (select), the first RID of the entry of every
\* key of the range (sum).
ReadSet(T, q) ==
    IF ~T.indexed THEN {}
    ELSE IF q.op = "select" THEN Elems(T.pkidx[q.k])
    ELSE {T.pkidx[k][1] : k \in {x \in Keys : x >= q.k /\ x <= q.k2 /\ T.pkidx[x] # <<>>}}

\* C11: whenever a select or sum of a transaction is about to execute, every base
\* record it reads is covered by a lock (S or X) the transaction holds.
C11_ReadsUnderLock ==
    \A w \in Workers :
        (Running /\ pc[w] = "exec" /\ CurQuery(w).op \in {"select", "sum"}) =>
            \A rid \in ReadSet(TableState, CurQuery(w)) : HoldsAny(CurId(w), rid)

\* Every RID the state holds anywhere: records, page directory, the locals of a
\* running query or lock helper and the RIDs pre-allocated to inserts (kept in their
\* arguments).
KnownRids ==
    DOMAIN recs \cup page_directory
      \cup {loc[w].rid : w \in {x \in Workers : loc[x].rid # None}}
      \cup UNION {Elems(loc[w].rest) \cup Elems(loc[w].rids) : w \in Workers}
      \cup UNION {UNION {Elems(queries[t][i].extra) : i \in 1..Len(queries[t])} : t \in Txns}

\* C12: every RID handed out is the counter's value at that time: it is larger than
\* every RID handed out before (all of them below the counter), the counter never
\* goes back, and so no RID, the one of an aborted pre-allocation included, is
\* handed out twice.
C12_RidsIncrease ==
    [][ /\ num_records' >= num_records
        /\ KnownRids \subseteq 0..(num_records - 1)
        /\ (KnownRids' \ KnownRids) \subseteq num_records..(num_records' - 1) ]_vars

\* An insert was pre-allocated an RID, its transaction aborted, and the retry was
\* pre-allocated another one.
C12_Witness ==
    \E t \in Txns : \E i \in 1..Len(queries[t]) :
        /\ Len(queries[t][i].extra) >= 2
        /\ queries[t][i].extra[1] < queries[t][i].extra[2]

\* ------------------------------------------------- the calls of the main thread
\* The main thread calls the Query methods directly, one after the other, each call
\* running from its first line to its return before the next one starts.
Idx(T, col) == IF col = 1 THEN T.pkidx ELSE T.validx
IsIndexed(T, col) == IF col = 1 THEN T.indexed ELSE T.vindexed
ColVals(col) == IF col = 1 THEN Keys ELSE Vals

\* The loop of get_record_version / get_record_column_version: from the base record
\* along the indirections while version <= 0, to the RID whose record is returned;
\* "raise" when a hop reads an RID without page-directory entry.
\* Faulty variant: the loop runs while version < 0, one hop short.
RECURSIVE VersionWalkOneShort(_, _, _)
VersionWalkOneShort(T, rid, version) ==
    IF version >= 0 THEN [st |-> "ok", rid |-> rid]
    ELSE IF rid \notin T.page_directory THEN [st |-> "raise", rid |-> rid]
    ELSE IF T.recs[rid].ind = INDIRECTION_NULL THEN [st |-> "ok", rid |-> rid]
    ELSE VersionWalkOneShort(T, T.recs[rid].ind, version + 1)

RECURSIVE VersionWalk(_, _, _)
VersionWalk(T, rid, version) ==
    IF version > 0 THEN [st |-> "ok", rid |-> rid]
    ELSE IF rid \notin T.page_directory THEN [st |-> "raise", rid |-> rid]
    ELSE IF T.recs[rid].ind = INDIRECTION_NULL THEN [st |-> "ok", rid |-> rid]
    ELSE VersionWalk(T, T.recs[rid].ind, version + 1)

\* get_record_version(rid, version), version <= 0, with the TPS of the base page 0
\* (no merge has run): "indirection <= tps" holds exactly for a null indirection.
get_record_version(T, rid, version) ==
    IF rid \notin T.page_directory THEN [st |-> "none", rid |-> rid, cols |-> <<>>]
    ELSE IF ~T.recs[rid].base THEN [st |-> "none", rid |-> rid, cols |-> <<>>]
    ELSE IF T.recs[rid].ind = INDIRECTION_NULL
    THEN [st |-> "ok", rid |-> rid, cols |-> T.recs[rid].cols]
    ELSE LET w == VersionWalk(T, rid, version) IN
         IF w.st = "raise" \/ w.rid \notin T.page_directory
         THEN [st |-> "raise", rid |-> w.rid, cols |-> <<>>]
         ELSE [st |-> "ok", rid |-> w.rid, cols |-> T.recs[w.rid].cols]

\* The RID column of the base pages, slot after slot (data_to_int_array), without
\* the slots delete_record has overwritten with the null value: the direct inserts
\* fill the slots in the order of their RIDs.
RECURSIVE Ascending(_)
Ascending(S) ==
    IF S = {} THEN <<>>
    ELSE LET m == CHOOSE x \in S : \A y \in S : x <= y
         IN  <<m>> \o Ascending(S \ {m})

BaseRids(T) == Ascending({r \in T.page_directory : T.recs[r].base})

\* __index_base_page_data over these RIDs: value -> the RIDs whose latest record
\* holds the value in the column, in the order of the scan.
RECURSIVE IndexOfScan(_, _, _, _)
IndexOfScan(T, rids, col, i) ==
    IF i > Len(rids) THEN [x \in ColVals(col) |-> <<>>]
    ELSE LET more == IndexOfScan(T, rids, col, i + 1)
             r == get_latest_record(T, rids[i])
         IN  IF r.st # "ok" THEN more
             ELSE [more EXCEPT ![r.cols[col]] = <<rids[i]>> \o @]

\* Index.create_index(column) on a table that holds records.
create_index_column(T, col) ==
    IF col = 1
    THEN [T EXCEPT !.indexed = TRUE, !.pkidx = IndexOfScan(T, BaseRids(T), 1, 1)]
    ELSE [T EXCEPT !.vindexed = TRUE, !.validx = IndexOfScan(T, BaseRids(T), 2, 1)]

\* The records select_version collects from a list of RIDs (lines 229-243), full
\* projection: their columns, one row per record found.
RECURSIVE SelectRows(_, _, _, _)
SelectRows(T, rids, version, i) ==
    IF i > Len(rids) THEN [st |-> "ok", rows |-> <<>>]
    ELSE LET r == get_record_version(T, rids[i], version)
             more == SelectRows(T, rids, version, i + 1)
         IN  IF r.st = "raise" \/ more.st = "raise" THEN [st |-> "raise", rows |-> <<>>]
             ELSE IF r.st = "none" THEN more
             ELSE [st |-> "ok", rows |-> <<r.cols>> \o more.rows]

\* Table.scan(search_key, column, version): the base RIDs whose record of that
\* version holds the key in the column.
RECURSIVE ScanRids(_, _, _, _, _, _)
ScanRids(T, rids, key, col, version, i) ==
    IF i > Len(rids) THEN <<>>
    ELSE LET r == get_record_version(T, rids[i], version)
             more == ScanRids(T, rids, key, col, version, i + 1)
         IN  IF r.st = "ok" /\ r.cols[col] = key THEN <<rids[i]>> \o more ELSE more

\* Query.select_version(search_key, column, [1, 1], version), lines 196-245.
select_version(T, key, col, version) ==
    LET T1 == IF IsIndexed(T, col) THEN T
              ELSE IF T.num_records % CREATE_INDICES_CONDITION = 0
              THEN create_index_column(T, col)
              ELSE T
        rids == IF IsIndexed(T1, col) THEN Idx(T1, col)[key]
                ELSE ScanRids(T1, BaseRids(T1), key, col, version, 1)
        got == SelectRows(T1, rids, version, 1)
    IN  [st |-> got.st, T |-> T1, rows |-> got.rows]

\* Faulty variant: the return on a duplicate key leaves insert_lock held.
insert_returning_with_lock(T, q) ==
    LET first == InsertReserve(T, q) IN
    IF first.st = "false" THEN [st |-> "false", T |-> first.T, lock |-> 1]
    ELSE LET o == InsertWrite(first.T, q, first.loc)
         IN  [st |-> o.st, T |-> o.T, lock |-> Free]

\* Query.insert(k, v), lines 76-167, the whole call: insert_lock is taken on line 77
\* and released on line 89 (duplicate key) or on line 147.
insert(T, q) ==
    LET first == InsertReserve(T, q) IN
    IF first.st = "false" THEN [st |-> "false", T |-> first.T, lock |-> Free]
    ELSE LET o == InsertWrite(first.T, q, first.loc)
         IN  [st |-> o.st, T |-> o.T, lock |-> Free]

\* Query.update(k, k2, v), lines 253-307, the whole call.
update(T, q) ==
    LET c == UpdateCheck(T, q) IN
    IF c.st # "go" THEN [st |-> c.st, T |-> c.T]
    ELSE LET o == UpdateTail(UpdateCopy(c.T, c.loc), q, c.loc)
         IN  [st |-> o.st, T |-> o.T]

\* Query.delete(k), lines 41-68, the whole call.
delete(T, q) ==
    LET c == DeleteCheck(T, q) IN
    IF c.st # "go" THEN [st |-> c.st, T |-> c.T]
    ELSE LET o == DeleteWrite(c.T, q, c.loc)
         IN  [st |-> o.st, T |-> o.T]

\* What the caller expects of the table, kept beside it: for every record it has
\* inserted and not deleted (by base RID) its present key, the columns of each of
\* its versions (the inserted ones first) and every RID the record has used.
Live(k) == {r \in DOMAIN shadow : shadow[r].key = k}
LiveRid(k) == CHOOSE r \in Live(k) : TRUE
Latest(r) == shadow[r].vers[Len(shadow[r].vers)]
NumUpdates(r) == Len(shadow[r].vers) - 1

\* A call changed what it must leave alone on failure: pages, page directory,
\* indices or the RID counter.
Changed(T, T2) == Stored(T) # Stored(T2) \/ T.num_records # T2.num_records

MaxVersion == 3
Versions == 0..MaxVersion

\* The main thread's calls use the RIDs below SeqMaxRid.
SeqMaxRid == 4

\* The state the main thread starts from: an empty table, no worker thread.
SeqInit ==
    /\ InitTable
    /\ InitWorkers
    /\ InitOther
    /\ queries = [t \in Txns |-> <<Sel(1)>>]

SeqFrame == UNCHANGED <<lmVars, workerVars, placeVars, poolVars, cacheVars, mergeVars, moreVars>>

\* query.insert(k, v)
SeqInsert(k, v) ==
    /\ insert_lock = Free
    /\ \E o \in {insert(TableState, Ins(k, v))} :
          /\ o.T.num_records <= SeqMaxRid
          /\ SetTable(o.T)
          /\ insert_lock' = o.lock
          /\ lastcall' = [op |-> "insert", k |-> k, res |-> o.st,
                          inidx |-> locate(TableState, k).found,
                          changed |-> Changed(TableState, o.T)]
    /\ shadow' = IF Live(k) # {} THEN shadow
                 ELSE Put(shadow, num_records,
                          [key |-> k, vers |-> <<(<<k, v>>)>>, rids |-> {num_records}])
    /\ SeqFrame

\* query.update(k, k2, v); None for a column the update leaves alone.
SeqUpdate(k, k2, v) ==
    /\ LET some == k2 # None \/ v # None
           collides == some /\ Live(k) # {} /\ k2 # None /\ k2 # k /\ Live(k2) # {}
           applies == some /\ Live(k) # {} /\ ~collides
       IN  /\ \E o \in {update(TableState, Upd(k, k2, v))} :
                /\ o.T.num_records <= SeqMaxRid
                /\ SetTable(o.T)
                /\ lastcall' = [op |-> "update", k |-> k, k2 |-> k2, res |-> o.st,
                                inidx |-> /\ locate(TableState, k).found
                                          /\ k2 # None /\ k2 # k
                                          /\ locate(TableState, k2).found,
                                changed |-> Changed(TableState, o.T)]
           /\ shadow' =
                IF ~applies THEN shadow
                ELSE LET r == LiveRid(k)
                         cols == <<IF k2 # None THEN k2 ELSE Latest(r)[1],
                                   IF v # None THEN v ELSE Latest(r)[2]>>
                     IN  [shadow EXCEPT ![r] =
                            [key |-> cols[1], vers |-> Append(@.vers, cols),
                             rids |-> @.rids \cup (num_records..(num_records' - 1))]]
    /\ UNCHANGED insert_lock
    /\ SeqFrame

\* query.delete(k)
SeqDelete(k) ==
    /\ \E o \in {delete(TableState, Del(k))} :
          /\ SetTable(o.T)
          /\ lastcall' = [op |-> "delete", k |-> k, res |-> o.st,
                          was |-> IF Live(k) = {} THEN None ELSE LiveRid(k),
                          rids |-> IF Live(k) = {} THEN {} ELSE shadow[LiveRid(k)].rids,
                          updates |-> IF Live(k) = {} THEN 0 ELSE NumUpdates(LiveRid(k))]
    /\ shadow' = IF Live(k) = {} THEN shadow ELSE Drop(shadow, LiveRid(k))
    /\ UNCHANGED insert_lock
    /\ SeqFrame

\* query.select_version(key, col, [1, 1], -back)
SeqSelect(key, col, back) ==
    /\ key \in ColVals(col)
    /\ \E o \in {select_version(TableState, key, col, 0 - back)} :
          /\ SetTable(o.T)
          /\ lastcall' = [op |-> "select", k |-> key, col |-> col, back |-> back,
                          res |-> o.st, rows |-> o.rows]
    /\ UNCHANGED <<insert_lock, shadow>>
    /\ SeqFrame

\* table.index.create_index(col)
SeqCreateIndex(col) ==
    /\ SetTable(create_index_column(TableState, col))
    /\ lastcall' = [op |-> "create_index", col |-> col]
    /\ UNCHANGED <<insert_lock, shadow>>
    /\ SeqFrame

SeqNext ==
    \/ \E k \in Keys : \E v \in Vals : SeqInsert(k, v)
    \/ \E k \in Keys : \E k2 \in Keys \cup {None} : \E v \in Vals \cup {None} :
          SeqUpdate(k, k2, v)
    \/ \E k \in Keys : SeqDelete(k)
    \/ \E col \in {1, 2} : \E key \in Keys \cup Vals : \E back \in Versions :
          SeqSelect(key, col, back)
    \/ \E col \in {1, 2} : SeqCreateIndex(col)

SeqSpec == SeqInit /\ [][SeqNext]_vars

\* C14: between the calls, for every indexed column c and every live base RID R, the
\* index entry of R's latest value of c contains R, and the entry of no other value
\* of c does.
C14_IndexMatchesLatest ==
    \A col \in {1, 2} :
        IsIndexed(TableState, col) =>
            \A r \in DOMAIN shadow : \A x \in ColVals(col) :
                Contains(Idx(TableState, col)[x], r) <=> (x = Latest(r)[col])

\* Both columns are indexed, a record whose key and value an update has changed is
\* live, and the last call deleted another record.
C14_Witness ==
    /\ indexed /\ vindexed
    /\ lastcall.op = "delete" /\ lastcall.res = "true"
    /\ \E r \in DOMAIN shadow :
          /\ NumUpdates(r) >= 1
          /\ shadow[r].vers[1][1] # Latest(r)[1]
          /\ shadow[r].vers[1][2] # Latest(r)[2]

C17_VersionsAreHistory ==
    (/\ lastcall.op = "select" /\ lastcall.col = 1
     /\ Live(lastcall.k) # {}) =>
        LET r == LiveRid(lastcall.k)
            k == NumUpdates(r)
        IN  (k >= 1 /\ lastcall.back <= k) =>
                /\ lastcall.res = "ok"
                /\ lastcall.rows = <<shadow[r].vers[k - lastcall.back + 1]>>

\* The last call selected version -1 of a record with two updates, whose columns
\* after the first update differ from the inserted and from the latest ones.
C17_Witness ==
    /\ lastcall.op = "select" /\ lastcall.col = 1 /\ lastcall.back = 1
    /\ \E r \in Live(lastcall.k) :
          /\ NumUpdates(r) = 2
          /\ shadow[r].vers[2] # shadow[r].vers[1]
          /\ shadow[r].vers[2] # shadow[r].vers[3]
          /\ lastcall.rows = <<shadow[r].vers[2]>>

\* C18: after delete(key) of a record with k >= 0 updates the page directory holds
\* none of the RIDs the record used (base, base copy, tail records), no index lists
\* the base RID, the primary-key index has no entry for the key, and a select on the
\* key returns the empty list.
C18_DeleteRemovesRecord ==
    (lastcall.op = "delete" /\ lastcall.was # None) =>
        /\ lastcall.res = "true"
        /\ lastcall.rids \cap page_directory = {}
        /\ \A col \in {1, 2} : \A x \in ColVals(col) :
              ~Contains(Idx(TableState, col)[x], lastcall.was)
        /\ pkidx[lastcall.k] = <<>>
        /\ select_version(TableState, lastcall.k, 1, 0).rows = <<>>
        /\ select_version(TableState, lastcall.k, 1, 0).st = "ok"

\* The last call deleted a record with two updates (base, base copy and two tail
\* records) while both columns were indexed.
C18_Witness ==
    /\ lastcall.op = "delete" /\ lastcall.was # None /\ lastcall.res = "true"
    /\ lastcall.updates = 2
    /\ Cardinality(lastcall.rids) = 4
    /\ indexed /\ vindexed

\* ------------------------------------------------- where the records land
\* The main thread fills a table by direct inserts and reads it back.
PlaceFrame == UNCHANGED <<lmVars, tableVars, workerVars, seqVars, poolVars, cacheVars, mergeVars, moreVars>>

AllIdle == \A t \in Threads : threads[t].pc = "idle"

\* Query.insert(k, v) on the stored pages, the whole call.
PlacedInsert(S, k, v) ==
    IF S.indexed /\ S.index[k] # <<>> THEN S
    ELSE LET r == PlaceReserve(S)
         IN  PlaceWrite(PlaceIncrement(r.S, r.pr, r.pg), r, k, v)

\* query.insert(k, v) by the main thread.
LoadInsert(k, v) ==
    /\ AllIdle
    /\ store' = PlacedInsert(store, k, v)
    /\ placed' = [inserted |-> IF store.indexed /\ store.index[k] # <<>>
                               THEN placed.inserted
                               ELSE Append(placed.inserted, <<k, v>>),
                  sel |-> None, rows |-> <<>>]
    /\ UNCHANGED <<threads, qlocks>>
    /\ PlaceFrame

\* query.select(k, 0, [1, 1]) by the main thread.
LoadSelect(k) ==
    /\ AllIdle
    /\ placed' = [placed EXCEPT !.sel = k, !.rows = PlacedSelect(store, k)]
    /\ UNCHANGED <<store, threads, qlocks>>
    /\ PlaceFrame

LoadInit ==
    /\ InitTable
    /\ InitWorkers
    /\ InitOther
    /\ queries = [t \in Txns |-> <<Sel(1)>>]

LoadNext ==
    \/ \E k \in PlaceKeys : \E v \in Vals : LoadInsert(k, v)
    \/ \E k \in PlaceKeys : LoadSelect(k)

LoadSpec == LoadInit /\ [][LoadNext]_vars

\* Threads that call insert and update at the same time, each through the Query
\* object it was given, after the main thread has inserted the keys 1..n, n at
\* most MaxPreload.
MaxPreload == 3

PlaceLoad ==
    /\ Len(placed.inserted) < MaxPreload
    /\ LoadInsert(Len(placed.inserted) + 1, 0)

\* The threads start: each with one call, insert(k, MaxVal) or update(k, None, MaxVal),
\* on the first Query object or on a second one.
PlaceStart ==
    /\ AllIdle
    /\ \E ops \in [Threads -> {"insert", "update"}] :
       \E ks \in [Threads -> PlaceKeys] :
       \E qs \in [Threads -> QueryObjects] :
          /\ qs[1] = 1
          /\ threads' = [t \in Threads |->
                           [IdleThread EXCEPT !.pc = ops[t], !.k = ks[t], !.v = MaxVal,
                                              !.query = qs[t]]]
    /\ UNCHANGED <<store, qlocks, placed>>
    /\ PlaceFrame

\* Query.insert, lines 77-143: insert_lock of the thread's Query object is taken and,
\* unless the key is a duplicate, kept.
ThreadInsertReserve(t) ==
    LET me == threads[t] IN
    /\ me.pc = "insert"
    /\ qlocks[me.query].insert_lock = Free
    /\ IF store.indexed /\ store.index[me.k] # <<>>
       THEN /\ threads' = [threads EXCEPT ![t].pc = "done"]
            /\ UNCHANGED <<store, qlocks>>
       ELSE \E r \in {PlaceReserve(store)} :
               /\ store' = r.S
               /\ qlocks' = [qlocks EXCEPT ![me.query].insert_lock = t]
               /\ threads' = [threads EXCEPT ![t].pc = "incr",
                                             ![t].loc = [NoPlace EXCEPT !.rid = r.rid,
                                                            !.pr = r.pr, !.pg = r.pg,
                                                            !.offset = r.offset]]
    /\ UNCHANGED placed
    /\ PlaceFrame

\* Query.insert, lines 144-147: the page's num_records, then insert_lock is released.
ThreadInsertIncrement(t) ==
    LET me == threads[t] IN
    /\ me.pc = "incr"
    /\ store' = PlaceIncrement(store, me.loc.pr, me.loc.pg)
    /\ qlocks' = [qlocks EXCEPT ![me.query].insert_lock = Free]
    /\ threads' = [threads EXCEPT ![t].pc = "write"]
    /\ UNCHANGED placed
    /\ PlaceFrame

\* Query.insert, lines 149-167.
ThreadInsertWrite(t) ==
    LET me == threads[t] IN
    /\ me.pc = "write"
    /\ store' = PlaceWrite(store, me.loc, me.k, me.v)
    /\ threads' = [threads EXCEPT ![t].pc = "done"]
    /\ UNCHANGED <<qlocks, placed>>
    /\ PlaceFrame

\* Query.update, lines 253-291: the key looked up, the latest record and the base
\* record's indirection read.
ThreadUpdateCheck(t) ==
    LET me == threads[t] IN
    /\ me.pc = "update"
    /\ IF ~store.indexed \/ store.index[me.k] = <<>>
       THEN threads' = [threads EXCEPT ![t].pc = "done"]
       ELSE LET rid == store.index[me.k][1]
                prev == PlacedLatest(store, rid)
                bind == SlotAt(store, store.page_directory[rid]).ind
            IN  threads' = [threads EXCEPT
                   ![t].pc = IF prev.st # "ok" THEN "done"
                             ELSE IF bind = INDIRECTION_NULL THEN "copy" ELSE "tail",
                   ![t].loc = [NoPlace EXCEPT !.base = rid, !.cols = prev.rec.cols,
                                              !.prid = prev.rec.rid]]
    /\ UNCHANGED <<store, qlocks, placed>>
    /\ PlaceFrame

\* __insert_to_tail_page, lines 372-399, for the base copy (pc = "copy") or the
\* tail record (pc = "tail"): update_lock of the thread's Query object is taken.
ThreadTailReserve(t) ==
    LET me == threads[t] IN
    /\ me.pc \in {"copy", "tail"}
    /\ qlocks[me.query].update_lock = Free
    /\ \E r \in {TailReserve(store, me.loc.base)} :
          /\ store' = r.S
          /\ threads' = [threads EXCEPT
                ![t].pc = IF me.pc = "copy" THEN "copy_incr" ELSE "tail_incr",
                ![t].loc = [me.loc EXCEPT !.rid = r.rid, !.pr = r.pr, !.pg = r.pg,
                                          !.offset = r.offset]]
    /\ qlocks' = [qlocks EXCEPT ![me.query].update_lock = t]
    /\ UNCHANGED placed
    /\ PlaceFrame

\* __insert_to_tail_page, lines 400-404: num_records, then update_lock is released.
ThreadTailIncrement(t) ==
    LET me == threads[t] IN
    /\ me.pc \in {"copy_incr", "tail_incr"}
    /\ store' = PlaceIncrement(store, me.loc.pr, me.loc.pg)
    /\ qlocks' = [qlocks EXCEPT ![me.query].update_lock = Free]
    /\ threads' = [threads EXCEPT
          ![t].pc = IF me.pc = "copy_incr" THEN "copy_write" ELSE "tail_write"]
    /\ UNCHANGED placed
    /\ PlaceFrame

\* __insert_to_tail_page, lines 406-453: the base copy points to the base record and
\* holds its columns; the tail record points to the base copy or to the record that
\* was the latest, and holds the updated columns.
ThreadTailWrite(t) ==
    LET me == threads[t] IN
    /\ me.pc \in {"copy_write", "tail_write"}
    /\ IF me.pc = "copy_write"
       THEN /\ store' = TailWrite(store, me.loc, me.loc.base, me.loc.cols)
            /\ threads' = [threads EXCEPT ![t].pc = "tail", ![t].loc.prid = me.loc.rid]
       ELSE /\ store' = TailWrite(store, me.loc, me.loc.prid, <<me.loc.cols[1], me.v>>)
            /\ threads' = [threads EXCEPT ![t].pc = "done"]
    /\ UNCHANGED <<qlocks, placed>>
    /\ PlaceFrame

ThreadStep(t) ==
    \/ ThreadInsertReserve(t)
    \/ ThreadInsertIncrement(t)
    \/ ThreadInsertWrite(t)
    \/ ThreadUpdateCheck(t)
    \/ ThreadTailReserve(t)
    \/ ThreadTailIncrement(t)
    \/ ThreadTailWrite(t)

PlaceNext ==
    \/ PlaceLoad
    \/ PlaceStart
    \/ \E t \in Threads : ThreadStep(t)

PlaceSpec == LoadInit /\ [][PlaceNext]_vars

\* C13: the page directory maps no two RIDs to the same (page range, page, offset),
\* whatever the threads' inserts and updates, through whichever Query objects.
C13_NoSharedSlot ==
    \A r1 \in DOMAIN store.page_directory : \A r2 \in DOMAIN store.page_directory :
        r1 # r2 => store.page_directory[r1] # store.page_directory[r2]

\* C16: a select on the key of a record the main thread has inserted returns exactly
\* one record, with the inserted columns.
C16_SelectReturnsInserted ==
    \A i \in 1..Len(placed.inserted) :
        placed.sel = placed.inserted[i][1] => placed.rows = <<placed.inserted[i]>>

\* The record selected lies in the second page range, which the fifth insert opened.
C16_Witness ==
    /\ placed.sel # None
    /\ store.indexed /\ store.index[placed.sel] # <<>>
    /\ store.page_directory[store.index[placed.sel][1]][1] = 1
    /\ \E i \in 1..Len(placed.inserted) : placed.rows = <<placed.inserted[i]>>

\* ------------------------------------------------- threads on the bufferpool
\* Each thread fetches a physical page (get_physical_page), then either only reads
\* it or pins it, works on it and unpins it, again and again.
PoolFrame == UNCHANGED <<lmVars, tableVars, workerVars, seqVars, placeVars, cacheVars, mergeVars, moreVars>>

\* __get_physical_page_helper, lines 90-108: the lock of the path is taken (created
\* when missing); a resident page is returned at once; otherwise the thread goes on
\* to evict (no capacity) or to load the page, holding the lock of the path.
FetchStart(t, path) ==
    /\ fetchers[t].pc = "idle"
    /\ IF path \in DOMAIN pool.page_locks THEN pool.page_locks[path] = Free ELSE TRUE
    /\ IF path \in DOMAIN pool.pages
       THEN /\ fetchers' = [fetchers EXCEPT ![t] = [IdleFetcher EXCEPT !.pc = "got",
                                                      !.path = path,
                                                      !.obj = pool.pages[path]]]
            /\ pool' = [pool EXCEPT !.page_locks = Put(@, path, Free)]
       ELSE /\ Cardinality(DOMAIN pool.objs) < MaxObj
            /\ fetchers' = [fetchers EXCEPT ![t] =
                              [IdleFetcher EXCEPT !.path = path,
                                  !.pc = IF has_capacity(pool) THEN "load" ELSE "evict"]]
            /\ pool' = [pool EXCEPT !.page_locks = Put(@, path, t)]
    /\ PoolFrame

\* __evict, lines 358-376: under evict_lock; nothing to do below capacity; the victim
\* is the first page of the LRU queue with pin count 0; when every page is pinned
\* the method returns False and evict_lock stays held.
EvictChoose(t) ==
    /\ fetchers[t].pc = "evict"
    /\ pool.evict_lock = Free
    /\ IF Cardinality(DOMAIN pool.pages) < PoolCapacity
       THEN /\ fetchers' = [fetchers EXCEPT ![t].pc = "load"]
            /\ UNCHANGED pool
       ELSE IF FirstUnpinned(pool, 1) = 0
       THEN /\ fetchers' = [fetchers EXCEPT ![t].pc = "load"]
            /\ pool' = [pool EXCEPT !.evict_lock = t]
       ELSE /\ fetchers' = [fetchers EXCEPT ![t].pc = "pop",
                                            ![t].victim = FirstUnpinned(pool, 1)]
            /\ pool' = [pool EXCEPT !.evict_lock = t]
    /\ PoolFrame

\* __evict, lines 378-386: the victim leaves pages, lru_pages and page_locks, and
\* evict_lock is released.
EvictPop(t) ==
    /\ fetchers[t].pc = "pop"
    /\ pool' = [pool EXCEPT !.pages = Drop(@, fetchers[t].victim),
                            !.lru_pages = Without(@, fetchers[t].victim),
                            !.page_locks = Drop(@, fetchers[t].victim),
                            !.evict_lock = Free]
    /\ fetchers' = [fetchers EXCEPT ![t].pc = "load", ![t].victim = 0]
    /\ PoolFrame

\* __get_physical_page_helper, lines 110-121: a new PhysicalPage read from disk is
\* added to pages and to the end of lru_pages, whatever __evict did, and the lock of
\* the path is released.
Load(t) ==
    /\ fetchers[t].pc = "load"
    /\ LET obj == Cardinality(DOMAIN pool.objs) + 1
           path == fetchers[t].path
       IN  /\ pool' = [pool EXCEPT !.objs = Put(@, obj, [path |-> path, pin |-> 0]),
                                   !.pages = Put(@, path, obj),
                                   !.lru_pages = Append(@, path),
                                   !.page_locks = Put(@, path, Free)]
           /\ fetchers' = [fetchers EXCEPT ![t].pc = "got", ![t].obj = obj]
    /\ PoolFrame

\* pin_page: use_pin_count("i") on the page the thread was given.
Pin(t) ==
    /\ fetchers[t].pc = "got"
    /\ pool' = [pool EXCEPT !.objs[fetchers[t].obj].pin = @ + 1]
    /\ fetchers' = [fetchers EXCEPT ![t].pc = "pinned"]
    /\ PoolFrame

\* unpin_page: use_pin_count("d").
Unpin(t) ==
    /\ fetchers[t].pc = "pinned"
    /\ pool' = [pool EXCEPT !.objs[fetchers[t].obj].pin = @ - 1]
    /\ fetchers' = [fetchers EXCEPT ![t] = IdleFetcher]
    /\ PoolFrame

\* A reader is done with the page it was given, without having pinned it.
ReadOnly(t) ==
    /\ fetchers[t].pc = "got"
    /\ fetchers' = [fetchers EXCEPT ![t] = IdleFetcher]
    /\ UNCHANGED pool
    /\ PoolFrame

PoolNext ==
    \E t \in Fetchers :
        \/ \E path \in Paths : FetchStart(t, path)
        \/ EvictChoose(t)
        \/ EvictPop(t)
        \/ Load(t)
        \/ Pin(t)
        \/ Unpin(t)
        \/ ReadOnly(t)

PoolSpec == LoadInit /\ [][PoolNext]_vars

\* C19: the number of resident physical pages never exceeds the capacity.
C19_WithinCapacity == Cardinality(DOMAIN pool.pages) <= PoolCapacity

\* C20: a page that a thread has fetched and pinned, and not yet unpinned, is the
\* resident page of its path.
C20_PinnedStaysResident ==
    \A t \in Fetchers :
        fetchers[t].pc = "pinned" =>
            /\ fetchers[t].path \in DOMAIN pool.pages
            /\ pool.pages[fetchers[t].path] = fetchers[t].obj

\* C21: when get_physical_page returns, on a hit or after a load, the requested path
\* is in the pool and is the last element of the LRU queue.
C21_FetchedIsMostRecent ==
    [][\A t \in Fetchers :
          (fetchers[t].pc # "got" /\ fetchers'[t].pc = "got") =>
              /\ fetchers'[t].path \in DOMAIN pool'.pages
              /\ pool'.lru_pages # <<>>
              /\ pool'.lru_pages[Len(pool'.lru_pages)] = fetchers'[t].path]_vars

\* --------------------------------------------------- write-back of evicted pages
\* One thread calls the bufferpool; no page is pinned between its calls.

\* __evict with the pool full and no page pinned: the victim is the first path of
\* lru_pages; its data goes to its file only if is_dirty.
CacheEvict(C) ==
    LET key_of_page == Head(C.lru_pages)
        page_to_evict == C.pages[key_of_page]
    IN  [C EXCEPT !.disk = IF page_to_evict.is_dirty
                           THEN [C.disk EXCEPT ![key_of_page] = Bytes(page_to_evict)]
                           ELSE C.disk,
                  !.pages = Drop(C.pages, key_of_page),
                  !.lru_pages = Tail(C.lru_pages)]

\* __fetch_phys_page: a new PhysicalPage with the data of the file, its attributes
\* parsed from the header, is_dirty False.
fetch_phys_page(C, path) ==
    [slot |-> C.disk[path].slot, hdr |-> C.disk[path].hdr,
     num_updates |-> C.disk[path].hdr, is_dirty |-> FALSE]

\* get_physical_page: the pool after the call; the page is then C.pages[path].
get_physical_page(C, path) ==
    IF path \in DOMAIN C.pages THEN C
    ELSE LET E == IF Cardinality(DOMAIN C.pages) = PoolCapacity THEN CacheEvict(C)
                  ELSE C
         IN  [E EXCEPT !.pages = Put(E.pages, path, fetch_phys_page(E, path)),
                       !.lru_pages = Append(E.lru_pages, path)]

CacheFrame ==
    UNCHANGED <<lmVars, tableVars, workerVars, seqVars, placeVars, poolVars, mergeVars, moreVars>>

\* PhysicalPage.write(value, offset) on the page of path: the slot, then the header
\* from the attributes, then is_dirty = True.
CacheWrite(path, v) ==
    /\ \E C \in {get_physical_page(cache, path)} :
          cache' = [C EXCEPT !.pages[path].slot = v,
                             !.pages[path].hdr = C.pages[path].num_updates,
                             !.pages[path].is_dirty = TRUE]
    /\ CacheFrame

\* Bufferpool.set_num_updates: the header bytes of the page, and nothing else.
set_num_updates(path, n) ==
    /\ \E C \in {get_physical_page(cache, path)} :
          cache' = [C EXCEPT !.pages[path].hdr = n]
    /\ CacheFrame

\* Bufferpool.get_num_updates and a read_val of the slot.
CacheRead(path) ==
    /\ \E C \in {get_physical_page(cache, path)} :
          cache' = [C EXCEPT !.read = [path |-> path, slot |-> C.pages[path].slot,
                                       hdr |-> C.pages[path].hdr]]
    /\ CacheFrame

CacheNext ==
    \/ \E path \in Paths : \E v \in Vals : CacheWrite(path, v)
    \/ \E path \in Paths : \E n \in Vals : set_num_updates(path, n)
    \/ \E path \in Paths : CacheRead(path)

CacheSpec == LoadInit /\ [][CacheNext]_vars

\* C22: when a page leaves the pool, its file holds the bytes the page had.
C22_EvictedPageIsOnDisk ==
    [][\A path \in Paths :
          (path \in DOMAIN cache.pages /\ path \notin DOMAIN cache'.pages) =>
              cache'.disk[path] = Bytes(cache.pages[path])]_vars

\* ------------------------------------------------------------------- the merge
\* The main thread inserts and updates the records of base page 0 of page range 0;
\* the thread of Table.merge runs between its calls and between the two tail
\* inserts of a first update.

\* get_physical_page of a data column of the base page: the PhysicalPage of the pool
\* when it is there, the data of the file otherwise.
BaseData(m) == IF m.resident THEN m.data ELSE m.file

\* The slot of a base RID in the base page (page_directory), 0 for any other RID.
BaseSlot(m, rid) ==
    IF \E s \in 1..Len(m.base) : m.base[s].rid = rid
    THEN CHOOSE s \in 1..Len(m.base) : m.base[s].rid = rid
    ELSE 0

\* All tail records, oldest first.
RECURSIVE TailRecords(_, _)
TailRecords(m, i) ==
    IF i > Len(m.tails) THEN <<>> ELSE m.tails[i] \o TailRecords(m, i + 1)

\* Bufferpool.get_record: the metadata and data columns of a RID.
ReadRecord(m, rid) ==
    LET s == BaseSlot(m, rid) IN
    IF s # 0
    THEN [rid |-> rid, ind |-> m.base[s].ind,
          key |-> BaseData(m)[s].key, val |-> BaseData(m)[s].val]
    ELSE LET all == TailRecords(m, 1)
         IN  all[CHOOSE i \in 1..Len(all) : all[i].rid = rid]

\* The loop of get_record_version, lines 254-266.
RECURSIVE ReadWalk(_, _, _)
ReadWalk(m, rid, version) ==
    IF version > 0 THEN rid
    ELSE IF ReadRecord(m, rid).ind = INDIRECTION_NULL THEN rid
    ELSE ReadWalk(m, ReadRecord(m, rid).ind, version + 1)

\* Table.get_record_version of a base RID: the base record when its indirection is
\* at most the TPS of the base page, the record the walk ends at otherwise.
ReadVersion(m, rid, version) ==
    IF m.base[BaseSlot(m, rid)].ind <= m.tps THEN ReadRecord(m, rid)
    ELSE ReadRecord(m, ReadWalk(m, rid, version))

\* Query.select_version(key, key column, all columns, version): the columns of the
\* record, <<>> when the key is not in the index.
ReadSelect(m, key, version) ==
    IF key \notin DOMAIN m.index THEN <<>>
    ELSE LET r == ReadVersion(m, m.index[key], version)
         IN  <<r.key, r.val>>

\* Query.__insert_to_tail_page: the next RID, the tail page (a new one when there is
\* none or the highest is full), num_updates of the base page, the tail record, the
\* indirection of the base record, and the request for a merge with its thread.
insert_to_tail_page(m, base_rid, rec) ==
    LET rid == m.num_records
        row == [rid |-> rid, ind |-> rec.ind, key |-> rec.key, val |-> rec.val]
        fresh == IF m.tails = <<>> THEN TRUE
                 ELSE Len(m.tails[Len(m.tails)]) = PageCapacity
        num_updates == m.num_updates + 1
        request == /\ num_updates > 0
                   /\ num_updates % MERGE_CONDITION = 0
                   /\ Len(m.base) = PageCapacity
    IN  [m EXCEPT !.num_records = rid + 1,
                  !.tails = IF fresh THEN Append(m.tails, <<row>>)
                            ELSE [m.tails EXCEPT ![Len(m.tails)] = Append(@, row)],
                  !.num_updates = num_updates,
                  !.base[BaseSlot(m, base_rid)].ind = rid,
                  !.queue = IF request THEN @ + 1 ELSE @,
                  !.runners = IF request THEN @ + 1 ELSE @]

Larger(a, b) == IF a > b THEN a ELSE b

\* __merge_helper, lines 176-205: the tail records of one tail page, newest first.
\* st is [raised, copy, num_updates, max_tid, tps].
RECURSIVE MergeRecords(_, _, _, _)
MergeRecords(m, tail_page, i, st) ==
    IF i = 0 THEN st
    ELSE LET primary_key == tail_page[i].key
             seen == [st EXCEPT !.max_tid = Larger(tail_page[i].rid, @)]
         IN  IF primary_key \notin DOMAIN m.index
             THEN [seen EXCEPT !.raised = TRUE]
             ELSE LET offset == BaseSlot(m, m.index[primary_key])
                  IN  IF offset = 0 THEN MergeRecords(m, tail_page, i - 1, seen)
                      ELSE MergeRecords(m, tail_page, i - 1,
                              [seen EXCEPT !.copy[offset] =
                                               [key |-> tail_page[offset].key,
                                                val |-> tail_page[offset].val],
                                           !.num_updates = @ + 1])

\* __merge_helper, lines 164-209: the loop over the tail page numbers; every pass
\* reads the tail page max_tp_num.
RECURSIVE MergePages(_, _, _, _)
MergePages(m, tail_page, current_tp_num, st) ==
    IF current_tp_num < MAX_BASE_PAGES THEN st
    ELSE LET first == [st EXCEPT !.max_tid = Larger(tail_page[1].rid, @)]
         IN  IF tail_page[1].rid < st.tps THEN first
             ELSE LET done == MergeRecords(m, tail_page, Len(tail_page), first)
                  IN  IF done.raised \/ done.num_updates = Len(m.base) THEN done
                      ELSE MergePages(m, tail_page, current_tp_num - 1, done)

\* One pass of the loop of Table.merge: __merge_helper for the first entry of the
\* queue, then popleft. merged keeps what the call did.
merge_helper(m) ==
    LET highest == MAX_BASE_PAGES - 1 + Len(m.tails)
        has_room == Len(m.tails[Len(m.tails)]) < PageCapacity
        max_tp_num == IF has_room THEN highest - 1 ELSE highest
        pinned == [m EXCEPT !.pin = @ + 1]
    IN  IF has_room /\ max_tp_num = MAX_BASE_PAGES - 1
        THEN [pinned EXCEPT !.merged = [kind |-> "nothing"],
                            !.queue = @ - 1,
                            !.runners = IF m.queue = 1 THEN @ - 1 ELSE @]
        ELSE LET st == MergePages(m, m.tails[max_tp_num - MAX_BASE_PAGES + 1],
                                  max_tp_num,
                                  [raised |-> FALSE, copy |-> BaseData(m),
                                   num_updates |-> 0, max_tid |-> 0, tps |-> m.tps])
             IN  IF st.raised
                 THEN [pinned EXCEPT !.merged = [kind |-> "raised"],
                                     !.runners = @ - 1]
                 ELSE [m EXCEPT !.file = st.copy,
                                !.merged = [kind |-> "done", max_tid |-> st.max_tid,
                                            tps |-> Larger(st.max_tid, st.tps)],
                                !.queue = @ - 1,
                                !.runners = IF m.queue = 1 THEN @ - 1 ELSE @]

MergeFrame ==
    UNCHANGED <<lmVars, tableVars, workerVars, seqVars, placeVars, poolVars, cacheVars,
                moreVars>>

\* Query.insert(k, v) of a key that is not in the table, into base page 0: the data
\* columns are fetched into the pool and written, the pins are taken and given back.
MergeInsert(k, v) ==
    /\ ~mg.upd.on
    /\ Len(mg.base) < PageCapacity
    /\ k \notin DOMAIN mg.index
    /\ mg' = [mg EXCEPT !.num_records = @ + 1,
                        !.base = Append(@, [rid |-> mg.num_records,
                                            ind |-> INDIRECTION_NULL]),
                        !.data = [BaseData(mg) EXCEPT ![Len(mg.base) + 1] =
                                                          [key |-> k, val |-> v]],
                        !.resident = TRUE,
                        !.is_dirty = TRUE,
                        !.index = Put(@, k, mg.num_records)]
    /\ MergeFrame

\* Query.update(k, k2, v) up to and including its first __insert_to_tail_page: the
\* copy of the base record for a first update, the tail record otherwise.
MergeUpdate(k, k2, v) ==
    /\ ~mg.upd.on
    /\ k \in DOMAIN mg.index
    /\ k2 # None \/ v # None
    /\ IF k2 # None /\ k2 # k THEN k2 \notin DOMAIN mg.index ELSE TRUE
    /\ Len(TailRecords(mg, 1)) + 2 <= MaxTailRecords
    /\ \E rids \in {mg.index[k]} :
       \E prev_record \in {ReadVersion(mg, rids, 0)} :
       \E updated \in {[key |-> IF k2 # None THEN k2 ELSE prev_record.key,
                        val |-> IF v # None THEN v ELSE prev_record.val]} :
          IF mg.base[BaseSlot(mg, rids)].ind = INDIRECTION_NULL
          THEN mg' = [insert_to_tail_page(mg, rids,
                          [ind |-> rids, key |-> prev_record.key,
                           val |-> prev_record.val])
                        EXCEPT !.upd = [on |-> TRUE, rids |-> rids,
                                        old |-> prev_record.key,
                                        ind |-> mg.num_records,
                                        key |-> updated.key, val |-> updated.val]]
          ELSE mg' = [insert_to_tail_page(mg, rids,
                          [ind |-> prev_record.rid, key |-> updated.key,
                           val |-> updated.val])
                        EXCEPT !.index = Put(Drop(@, prev_record.key),
                                             updated.key, rids)]
    /\ MergeFrame

\* The second __insert_to_tail_page of a first update: the tail record, which points
\* to the copy, and update_index of the key column.
MergeUpdateTail ==
    /\ mg.upd.on
    /\ mg' = [insert_to_tail_page(mg, mg.upd.rids,
                  [ind |-> mg.upd.ind, key |-> mg.upd.key, val |-> mg.upd.val])
                EXCEPT !.index = Put(Drop(@, mg.upd.old), mg.upd.key, mg.upd.rids),
                       !.upd = NoUpdate]
    /\ MergeFrame

\* __evict of the data columns of the base page, on a fetch of other pages.
MergeEvict ==
    /\ mg.resident
    /\ mg.pin = 0
    /\ mg' = [mg EXCEPT !.file = IF mg.is_dirty THEN mg.data ELSE @,
                        !.resident = FALSE]
    /\ MergeFrame

\* A read that fetches the data columns of the base page into the pool.
MergeFetch ==
    /\ ~mg.resident
    /\ mg' = [mg EXCEPT !.data = mg.file, !.resident = TRUE, !.is_dirty = FALSE]
    /\ MergeFrame

\* A thread of Table.merge takes the first entry of the queue.
MergeRun ==
    /\ mg.queue > 0
    /\ mg.runners > 0
    /\ mg.pin < MaxPin
    /\ mg' = merge_helper(mg)
    /\ MergeFrame

\* A thread of Table.merge finds the queue empty.
MergeExit ==
    /\ mg.queue = 0
    /\ mg.runners > 0
    /\ mg' = [mg EXCEPT !.runners = @ - 1]
    /\ MergeFrame

MergeNext ==
    \/ \E k \in MergeKeys : \E v \in Vals : MergeInsert(k, v)
    \/ \E k \in MergeKeys : \E k2 \in MergeKeys \cup {None} : \E v \in Vals \cup {None} :
          MergeUpdate(k, k2, v)
    \/ MergeUpdateTail
    \/ MergeEvict
    \/ MergeFetch
    \/ MergeRun
    \/ MergeExit

MergeSpec == LoadInit /\ [][MergeNext]_vars

\* C23: between the calls no physical page of the base page is pinned, and no pin
\* count is negative.
C23_PinsRestored == mg.pin = 0

\* C24: after a completed merge the TPS the read path sees is at least the largest
\* tail RID the merge observed.
C24_TpsCoversMerged == mg.merged.kind = "done" => mg.tps >= mg.merged.max_tid

\* C25: a completed merge leaves, for every base record whose newest tail RID is at
\* most the resulting TPS, the columns of that newest tail record in the base page.
C25_MergedHoldsNewest ==
    [][(mg'.queue < mg.queue /\ mg'.merged.kind = "done") =>
          \A s \in 1..Len(mg.base) :
             (mg.base[s].ind # INDIRECTION_NULL /\ mg.base[s].ind <= mg'.merged.tps) =>
                 /\ mg'.file[s].key = ReadRecord(mg, mg.base[s].ind).key
                 /\ mg'.file[s].val = ReadRecord(mg, mg.base[s].ind).val]_vars

MaxLockRid == 2
MaxLockTxn == 3
MaxKeys == 2
LockRids == 1..MaxLockRid
LockTxns == 1..MaxLockTxn
KeyLists == UNION {[1..n -> LockRids] : n \in 0..MaxKeys}

LockFrame ==
    UNCHANGED <<tableVars, workerVars, insert_lock, shadow, placeVars, poolVars,
                cacheVars, mergeVars, moreVars>>

CallShared(t, keys) ==
    /\ latch = Free
    /\ \E r \in {acquire_shared_lock(locks, lock_owners, keys, t)} :
          /\ locks' = r.locks
          /\ lock_owners' = r.owners
          /\ latch' = r.latch
          /\ lastcall' = [op |-> "acquire_shared_lock", t |-> t, keys |-> keys,
                          ok |-> r.ok]
    /\ LockFrame

CallExclusive(t, keys) ==
    /\ latch = Free
    /\ \E r \in {acquire_exclusive_lock(locks, lock_owners, keys, t)} :
          /\ locks' = r.locks
          /\ lock_owners' = r.owners
          /\ latch' = r.latch
          /\ lastcall' = [op |-> "acquire_exclusive_lock", t |-> t, keys |-> keys,
                          ok |-> r.ok]
    /\ LockFrame

CallRelease(t) ==
    /\ latch = Free
    /\ \E r \in {release_held_locks(locks, lock_owners, t)} :
          /\ locks' = r.locks
          /\ lock_owners' = r.owners
          /\ latch' = r.latch
          /\ lastcall' = [op |-> "release_held_locks", t |-> t, keys |-> <<>>,
                          ok |-> TRUE]
    /\ LockFrame

LockNext ==
    \/ \E t \in LockTxns : \E keys \in KeyLists : CallShared(t, keys)
    \/ \E t \in LockTxns : \E keys \in KeyLists : CallExclusive(t, keys)
    \/ \E t \in LockTxns : CallRelease(t)

LockSpec == LoadInit /\ [][LockNext]_vars

\* The entries of a RID in a lock table, those of t among them, and those of the
\* other transactions.
EntriesOf(L, rid) == IF rid \in DOMAIN L THEN L[rid] ELSE <<>>

OwnEntries(L, rid, t) ==
    {i \in 1..Len(EntriesOf(L, rid)) : EntriesOf(L, rid)[i].tid = t}

OtherEntries(L, rid, t) ==
    {EntriesOf(L, rid)[i] : i \in 1..Len(EntriesOf(L, rid))} \ {Lock("S", t), Lock("X", t)}

HasMode(L, rid, t, mode) ==
    \E i \in 1..Len(EntriesOf(L, rid)) : EntriesOf(L, rid)[i] = Lock(mode, t)

OwnedRids(O, t) == IF t \in DOMAIN O THEN O[t] ELSE <<>>

Occurrences(seq, x) == Cardinality({i \in 1..Len(seq) : seq[i] = x})

\* C27: acquire_shared_lock fails exactly when one of the RIDs carries an X lock of
\* another transaction; after a success the requester has one entry on every RID, in
\* the mode it had before where it had one.
C27_SharedGrant ==
    [][lastcall'.op = "acquire_shared_lock" =>
          LET t == lastcall'.t
              keys == lastcall'.keys
          IN  /\ ~lastcall'.ok <=>
                    \E i \in 1..Len(keys) :
                       \E e \in OtherEntries(locks, keys[i], t) : e.mode = "X"
              /\ lastcall'.ok =>
                    \A i \in 1..Len(keys) :
                       /\ Cardinality(OwnEntries(locks', keys[i], t)) = 1
                       /\ Occurrences(OwnedRids(lock_owners', t), keys[i]) = 1
                       /\ HasMode(locks, keys[i], t, "X") => HasMode(locks', keys[i], t, "X")
                       /\ HasMode(locks, keys[i], t, "S") => HasMode(locks', keys[i], t, "S")]_vars

\* A successful shared request on a RID the requester holds in X mode and on a RID
\* another transaction holds in S mode.
C27_Witness ==
    /\ lastcall.op = "acquire_shared_lock"
    /\ lastcall.ok
    /\ \E i, j \in 1..Len(lastcall.keys) :
          /\ HasMode(locks, lastcall.keys[i], lastcall.t, "X")
          /\ HasMode(locks, lastcall.keys[j], lastcall.t, "S")
          /\ OtherEntries(locks, lastcall.keys[j], lastcall.t) # {}

\* C28: acquire_exclusive_lock succeeds exactly when no other transaction holds a lock
\* on any of the RIDs; after a success the only entry of every RID is the X lock of the
\* requester, and the requester owns the RID once.
C28_ExclusiveGrant ==
    [][lastcall'.op = "acquire_exclusive_lock" =>
          LET t == lastcall'.t
              keys == lastcall'.keys
          IN  /\ lastcall'.ok <=>
                    \A i \in 1..Len(keys) : OtherEntries(locks, keys[i], t) = {}
              /\ lastcall'.ok =>
                    \A i \in 1..Len(keys) :
                       /\ EntriesOf(locks', keys[i]) = <<Lock("X", t)>>
                       /\ Occurrences(OwnedRids(lock_owners', t), keys[i]) = 1]_vars

\* A successful exclusive request on two RIDs, the second of which the requester
\* owned before the first.
C28_Witness ==
    /\ lastcall.op = "acquire_exclusive_lock"
    /\ lastcall.ok
    /\ Len(lastcall.keys) = MaxKeys
    /\ lastcall.keys[1] # lastcall.keys[2]
    /\ Len(OwnedRids(lock_owners, lastcall.t)) = MaxKeys
    /\ OwnedRids(lock_owners, lastcall.t)[1] = lastcall.keys[2]

\* What stands in the way of a request on a RID: for a shared request an X lock of
\* another transaction, for an exclusive request any lock of another transaction.
Conflicts(op, L, rid, t) ==
    IF op = "acquire_shared_lock"
    THEN \E e \in OtherEntries(L, rid, t) : e.mode = "X"
    ELSE OtherEntries(L, rid, t) # {}

\* C29: a rejected request leaves the requester with a lock on every RID that precedes
\* the first conflicting one, owned by it in lock_owners, and leaves the entries and
\* the owned RIDs of every other transaction as they were; an entry of a transaction
\* disappears only in its own release_held_locks.
C29_RejectedKeepsGrants ==
    [][/\ (lastcall'.op \in {"acquire_shared_lock", "acquire_exclusive_lock"}
              /\ ~lastcall'.ok) =>
             LET t == lastcall'.t
                 keys == lastcall'.keys
                 first == CHOOSE i \in 1..Len(keys) :
                             /\ Conflicts(lastcall'.op, locks, keys[i], t)
                             /\ \A j \in 1..(i - 1) :
                                   ~Conflicts(lastcall'.op, locks, keys[j], t)
             IN  /\ \A i \in 1..(first - 1) :
                       /\ Cardinality(OwnEntries(locks', keys[i], t)) = 1
                       /\ lastcall'.op = "acquire_exclusive_lock" =>
                              HasMode(locks', keys[i], t, "X")
                       /\ Occurrences(OwnedRids(lock_owners', t), keys[i]) = 1
                 /\ \A rid \in LockRids :
                       /\ OtherEntries(locks', rid, t) = OtherEntries(locks, rid, t)
                       /\ OwnEntries(locks, rid, t) # {} => OwnEntries(locks', rid, t) # {}
                 /\ \A u \in LockTxns \ {t} :
                       OwnedRids(lock_owners', u) = OwnedRids(lock_owners, u)
       /\ \A u \in LockTxns : \A rid \in LockRids :
             (OwnEntries(locks, rid, u) # {} /\ OwnEntries(locks', rid, u) = {}) =>
                 (lastcall'.op = "release_held_locks" /\ lastcall'.t = u)]_vars

\* After a rejected request on two RIDs the requester holds a lock on the first, next
\* to another transaction, and owns no other RID; the second is held by another
\* transaction.
C29_Witness ==
    /\ lastcall.op \in {"acquire_shared_lock", "acquire_exclusive_lock"}
    /\ ~lastcall.ok
    /\ Len(lastcall.keys) = MaxKeys
    /\ OwnedRids(lock_owners, lastcall.t) = <<lastcall.keys[1]>>
    /\ OtherEntries(locks, lastcall.keys[1], lastcall.t) # {}
    /\ OtherEntries(locks, lastcall.keys[MaxKeys], lastcall.t) # {}

\* C30: release_held_locks removes the entries of the transaction from every RID,
\* the RIDs left without entry from the lock table, and the transaction from
\* lock_owners; the entries and owned RIDs of the others stay, in their order; no RID
\* maps to an empty list.
C30_ReleaseFrame ==
    [][/\ lastcall'.op = "release_held_locks" =>
             LET t == lastcall'.t
             IN  /\ \A rid \in LockRids :
                       /\ OwnEntries(locks', rid, t) = {}
                       /\ EntriesOf(locks', rid) =
                              SelectSeq(EntriesOf(locks, rid), LAMBDA e : e.tid # t)
                 /\ t \notin DOMAIN lock_owners'
                 /\ \A u \in LockTxns \ {t} :
                       /\ u \in DOMAIN lock_owners' <=> u \in DOMAIN lock_owners
                       /\ OwnedRids(lock_owners', u) = OwnedRids(lock_owners, u)
                 /\ t \notin DOMAIN lock_owners =>
                       (locks' = locks /\ lock_owners' = lock_owners)
       /\ \A rid \in DOMAIN locks' : locks'[rid] # <<>>]_vars

\* After a release one RID is left in the lock table, shared by the other
\* transactions.
C30_Witness ==
    /\ lastcall.op = "release_held_locks"
    /\ lastcall.t \notin DOMAIN lock_owners
    /\ Cardinality(DOMAIN locks) = 1
    /\ Cardinality(DOMAIN lock_owners) = MaxLockTxn - 1

\* ------------------------------------------------ versions older than the history
\* C31: a select_version on the key of a live record with k >= 1 updates, for a
\* version older than its history (version -j, j > k), returns the inserted columns.
C31_OlderIsOriginal ==
    (/\ lastcall.op = "select" /\ lastcall.col = 1
     /\ Live(lastcall.k) # {}) =>
        LET r == LiveRid(lastcall.k)
            k == NumUpdates(r)
        IN  (k >= 1 /\ lastcall.back > k) =>
                /\ lastcall.res = "ok"
                /\ lastcall.rows = <<shadow[r].vers[1]>>

\* ------------------------------------------------------- the schema encoding
\* The keys, the values and the number of records of the schema model.
MaxEncKey == 3
MaxEncRecords == 2
EncKeys == 1..MaxEncKey
EncColumns == 1..2

\* The value of bit `a` or bit `b`.
BitOr(a, b) == IF a + b > 0 THEN 1 ELSE 0

\* new_schema |= old_schema, over the two bits of a two-column table.
SchemaOr(a, b) ==
    2 * BitOr((a \div 2) % 2, (b \div 2) % 2) + BitOr(a % 2, b % 2)

\* Table.update_schema_encoding, lines 350-355: the loop shifts the schema left and
\* sets the low bit for a column whose previous value differs from the new one.
RECURSIVE ChangedSchema(_, _, _)
ChangedSchema(columns, updated_cols, n) ==
    IF n = 0 THEN 0
    ELSE 2 * ChangedSchema(columns, updated_cols, n - 1)
         + (IF columns[n] # None /\ columns[n] # updated_cols[n] THEN 1 ELSE 0)

\* Table.update_schema_encoding(base_rid, old_schema, columns, updated_cols) for a
\* base record in the page directory: the schema it leaves in the base page.
update_schema_encoding(old_schema, columns, updated_cols) ==
    IF Len(columns) = 0 THEN old_schema
    ELSE SchemaOr(ChangedSchema(columns, updated_cols, Len(updated_cols)), old_schema)

\* The bit of column i in a schema: the loop shifts column 1 to the highest bit.
SchemaBit(schema, i) == IF i = 1 THEN (schema \div 2) % 2 ELSE schema % 2

EncLive(k) == {r \in DOMAIN enc : enc[r].cols[1] = k}

EncFrame ==
    UNCHANGED <<lmVars, tableVars, workerVars, seqVars, placeVars, poolVars, cacheVars,
                mergeVars, mq>>

\* Query.insert of a new key: the schema encoding of the base record is written as 0.
EncInsert(k, v) ==
    /\ Len(enc) < MaxEncRecords
    /\ EncLive(k) = {}
    /\ enc' = Append(enc, [cols |-> <<k, v>>, schema |-> 0, supplied |-> {}])
    /\ EncFrame

\* Query.update(k, k2, v) that reaches the tail page: on the first update the copy of
\* the base record goes through __insert_to_tail_page with columns = [], then the
\* updated record with columns = the latest record's columns.
EncUpdate(k, k2, v) ==
    /\ k2 # None \/ v # None
    /\ EncLive(k) # {}
    /\ IF k2 # None /\ k2 # k THEN EncLive(k2) = {} ELSE TRUE
    /\ \E r \in EncLive(k) :
         LET prev == enc[r].cols
             updated_cols == <<IF k2 # None THEN k2 ELSE prev[1],
                               IF v # None THEN v ELSE prev[2]>>
             copied == update_schema_encoding(enc[r].schema, <<>>, prev)
         IN  enc' = [enc EXCEPT ![r] =
                        [cols |-> updated_cols,
                         schema |-> update_schema_encoding(copied, prev, updated_cols),
                         supplied |-> @.supplied \cup
                                      {i \in EncColumns : <<k2, v>>[i] # None}]]
    /\ EncFrame

EncNext ==
    \/ \E k \in EncKeys, v \in Vals : EncInsert(k, v)
    \/ \E k \in EncKeys, k2 \in EncKeys \cup {None}, v \in Vals \cup {None} :
         EncUpdate(k, k2, v)

SchemaSpec == LoadInit /\ [][EncNext]_vars

\* C32: bit i of a base record's schema encoding is set exactly when some update
\* since the insert supplied a non-null value for column i.
C32_BitIffSupplied ==
    \A r \in DOMAIN enc : \A i \in EncColumns :
        SchemaBit(enc[r].schema, i) = 1 <=> i \in enc[r].supplied

\* ------------------------------------------------ concurrent fetches of a path
\* __get_physical_page_helper statement by statement: here page_locks maps a path to
\* a lock object of lock_objs, and lock_objs maps the object to its holder.
FetchThreads == {1, 2}
MaxLockObj == 3
MaxLoads == 3

FetchTo(t, to) == fetchers' = [fetchers EXCEPT ![t].pc = to]

\* Line 95: page_locks.get(path, -1) == -1.
FetchLookup(t, path) ==
    /\ fetchers[t].pc = "idle"
    /\ fetchers' = [fetchers EXCEPT ![t] =
                      [IdleFetcher EXCEPT !.path = path,
                          !.pc = IF path \in DOMAIN pool.page_locks
                                 THEN "find" ELSE "create"]]
    /\ UNCHANGED pool
    /\ PoolFrame

\* Line 96: page_locks[path] = threading.Lock(), whatever the dictionary holds by now.
FetchCreate(t) ==
    /\ fetchers[t].pc = "create"
    /\ Cardinality(DOMAIN pool.lock_objs) < MaxLockObj
    /\ LET l == Cardinality(DOMAIN pool.lock_objs) + 1 IN
       pool' = [pool EXCEPT !.lock_objs = Put(@, l, Free),
                            !.page_locks = Put(@, fetchers[t].path, l)]
    /\ FetchTo(t, "find")
    /\ PoolFrame

\* Lines 97 and 99: the subscript page_locks[path] of the acquire call; a KeyError
\* when an eviction has removed the path.
FetchFind(t) ==
    /\ fetchers[t].pc = "find"
    /\ fetchers' = [fetchers EXCEPT
         ![t].pc = IF fetchers[t].path \in DOMAIN pool.page_locks
                   THEN "acquire" ELSE "raised",
         ![t].lock = IF fetchers[t].path \in DOMAIN pool.page_locks
                     THEN pool.page_locks[fetchers[t].path] ELSE 0]
    /\ UNCHANGED pool
    /\ PoolFrame

\* Lines 97 and 99: acquire() on the lock object found; it blocks while the object is
\* held.
FetchAcquire(t) ==
    /\ fetchers[t].pc = "acquire"
    /\ pool.lock_objs[fetchers[t].lock] = Free
    /\ pool' = [pool EXCEPT !.lock_objs[fetchers[t].lock] = t]
    /\ FetchTo(t, "check")
    /\ PoolFrame

\* page_locks[path].release(): a KeyError when the path has no lock, a RuntimeError
\* when its lock object is not held; otherwise that object is free, whoever held it.
ReleasePath(P, path) ==
    IF path \notin DOMAIN P.page_locks THEN [ok |-> FALSE, P |-> P]
    ELSE IF P.lock_objs[P.page_locks[path]] = Free THEN [ok |-> FALSE, P |-> P]
    ELSE [ok |-> TRUE, P |-> [P EXCEPT !.lock_objs[P.page_locks[path]] = Free]]

\* Lines 102-109: a resident page is returned after the release; otherwise the thread
\* goes on to __evict (no capacity) or to the disk.
FetchCheck(t) ==
    /\ fetchers[t].pc = "check"
    /\ LET path == fetchers[t].path IN
       IF path \in DOMAIN pool.pages
       THEN \E o \in {ReleasePath(pool, path)} :
              /\ pool' = o.P
              /\ fetchers' = [fetchers EXCEPT
                   ![t].pc = IF o.ok THEN "got" ELSE "raised",
                   ![t].obj = IF o.ok THEN pool.pages[path] ELSE 0]
       ELSE /\ FetchTo(t, IF has_capacity(pool) THEN "load" ELSE "evict")
            /\ UNCHANGED pool
    /\ PoolFrame

\* The loop of __evict over lru_pages: "done" with the first path whose page has pin
\* count 0, "pinned" when there is none, "raised" at a path that is not in pages.
RECURSIVE EvictScan(_, _)
EvictScan(P, i) ==
    IF i > Len(P.lru_pages) THEN [st |-> "pinned", path |-> 0]
    ELSE IF P.lru_pages[i] \notin DOMAIN P.pages THEN [st |-> "raised", path |-> 0]
    ELSE IF P.objs[P.pages[P.lru_pages[i]]].pin = 0
         THEN [st |-> "done", path |-> P.lru_pages[i]]
    ELSE EvictScan(P, i + 1)

\* __evict, lines 357-386, under evict_lock: the exits at line 361 and at line 386
\* release evict_lock; the exit at line 375 and an exception leave it held.
FetchEvict(t) ==
    /\ fetchers[t].pc = "evict"
    /\ pool.evict_lock = Free
    /\ IF Cardinality(DOMAIN pool.pages) < PoolCapacity
       THEN /\ UNCHANGED pool
            /\ FetchTo(t, "load")
       ELSE \E o \in {EvictScan(pool, 1)} :
              CASE o.st = "raised" ->
                     /\ pool' = [pool EXCEPT !.evict_lock = t]
                     /\ FetchTo(t, "raised")
                [] o.st = "pinned" ->
                     /\ pool' = [pool EXCEPT !.evict_lock = t]
                     /\ FetchTo(t, "load")
                [] o.st = "done" ->
                     /\ pool' = [pool EXCEPT !.pages = Drop(@, o.path),
                                             !.lru_pages = Without(@, o.path),
                                             !.page_locks = Drop(@, o.path)]
                     /\ FetchTo(t, "load")
    /\ PoolFrame

\* Lines 111-121: a new PhysicalPage is read from disk, stored under the path and
\* the path appended to lru_pages; then page_locks[path].release().
FetchLoad(t) ==
    /\ fetchers[t].pc = "load"
    /\ Cardinality(DOMAIN pool.objs) < MaxLoads
    /\ LET obj == Cardinality(DOMAIN pool.objs) + 1
           path == fetchers[t].path
       IN  \E o \in {ReleasePath([pool EXCEPT
                                    !.objs = Put(@, obj, [path |-> path, pin |-> 0]),
                                    !.pages = Put(@, path, obj),
                                    !.lru_pages = Append(@, path)], path)} :
             /\ pool' = o.P
             /\ fetchers' = [fetchers EXCEPT
                  ![t].pc = IF o.ok THEN "got" ELSE "raised",
                  ![t].obj = obj]
    /\ PoolFrame

\* The caller is done with the page it was given.
FetchReturn(t) ==
    /\ fetchers[t].pc = "got"
    /\ fetchers' = [fetchers EXCEPT ![t] = IdleFetcher]
    /\ UNCHANGED pool
    /\ PoolFrame

FetchNext ==
    \E t \in FetchThreads :
        \/ \E path \in Paths : FetchLookup(t, path)
        \/ FetchCreate(t)
        \/ FetchFind(t)
        \/ FetchAcquire(t)
        \/ FetchCheck(t)
        \/ FetchEvict(t)
        \/ FetchLoad(t)
        \/ FetchReturn(t)

FetchSpec == LoadInit /\ [][FetchNext]_vars

\* The threads between the acquire and the release of the lock of a path.
Fetching(path) ==
    {t \in FetchThreads : fetchers[t].path = path
                          /\ fetchers[t].pc \in {"check", "evict", "load"}}

\* C33: fetches of one path are serialized (at most one thread is past the lock of
\* the path at a time), a path is at most once in the LRU queue, and the LRU queue
\* holds exactly the paths of the resident pages.
C33_FetchesSerialized ==
    /\ \A path \in Paths : Cardinality(Fetching(path)) <= 1
    /\ \A i, j \in 1..Len(pool.lru_pages) :
         pool.lru_pages[i] = pool.lru_pages[j] => i = j
    /\ {pool.lru_pages[i] : i \in 1..Len(pool.lru_pages)} = DOMAIN pool.pages

\* ------------------------------------------------------------ the merge queue
BasePages == 1..MaxBasePage

QueueFrame ==
    UNCHANGED <<lmVars, tableVars, workerVars, seqVars, placeVars, poolVars, cacheVars,
                mergeVars, enc>>

\* Query.__insert_to_tail_page, lines 443-451: an update that meets the merge
\* condition on a full base page appends the page to the merge queue (under
\* merge_queue_lock) and submits Table.merge to a new ThreadPoolExecutor(1): a new
\* thread for every trigger.
MergeTrigger(t, b) ==
    /\ mq.pc[t] \in {"none", "done"}
    /\ Len(mq.queue) < MaxQueue
    /\ Len(mq.enqueued) < MaxMerges
    /\ mq' = [mq EXCEPT !.queue = Append(@, b), !.enqueued = Append(@, b),
                        !.pc[t] = "test", !.entry[t] = 0]
    /\ QueueFrame

\* Table.merge, line 123: while len(self.merge_queue) > 0.
MergeTest(t) ==
    /\ mq.pc[t] = "test"
    /\ mq' = [mq EXCEPT !.pc[t] = IF Len(mq.queue) > 0 THEN "peek" ELSE "done"]
    /\ QueueFrame

\* Table.merge, line 124: the entry is read as merge_queue[0] and stays in the queue;
\* an IndexError when the queue has been emptied since the test.
MergePeek(t) ==
    /\ mq.pc[t] = "peek"
    /\ mq' = IF mq.queue = <<>> THEN [mq EXCEPT !.pc[t] = "raised"]
             ELSE [mq EXCEPT !.pc[t] = "merging", !.entry[t] = Head(mq.queue)]
    /\ QueueFrame

\* Table.merge, line 125: __merge_helper on the entry read.
MergeEntry(t) ==
    /\ mq.pc[t] = "merging"
    /\ mq' = [mq EXCEPT !.pc[t] = "pop", !.merged = Append(@, mq.entry[t])]
    /\ QueueFrame

\* Table.merge, line 126: merge_queue.popleft(), whatever entry is first by now; an
\* IndexError on an empty queue.
MergePop(t) ==
    /\ mq.pc[t] = "pop"
    /\ mq' = IF mq.queue = <<>> THEN [mq EXCEPT !.pc[t] = "raised"]
             ELSE [mq EXCEPT !.pc[t] = "test", !.queue = Tail(@), !.entry[t] = 0]
    /\ QueueFrame

QueueNext ==
    \E t \in MergeThreads :
        \/ \E b \in BasePages : MergeTrigger(t, b)
        \/ MergeTest(t)
        \/ MergePeek(t)
        \/ MergeEntry(t)
        \/ MergePop(t)

QueueSpec == LoadInit /\ [][QueueNext]_vars

\* C34: at most one merge is in progress, and the entries merged so far are the
\* first entries enqueued, each once and in the order of the queue.
C34_OneMergeInOrder ==
    /\ Cardinality({t \in MergeThreads : mq.pc[t] = "merging"}) <= 1
    /\ Len(mq.merged) <= Len(mq.enqueued)
    /\ \A i \in 1..Len(mq.merged) : i <= Len(mq.enqueued) => mq.merged[i] = mq.enqueued[i]

\* ------------------------------------------------ the index a select builds
\* C35: a select on a column without index builds the index of the column exactly
\* when the record count of the table has reached CREATE_INDICES_CONDITION.
C35_IndexAtThreshold ==
    [][(/\ lastcall'.op = "select"
        /\ ~IsIndexed(TableState, lastcall'.col)) =>
            ((IF lastcall'.col = 1 THEN indexed' ELSE vindexed')
                <=> num_records >= CREATE_INDICES_CONDITION)]_vars

\* ------------------------------------------------------------------ atomicity
\* C36: when run returns a value other than True, no step of that run has changed
\* the pages or the page directory.
C36_AbortLeavesNothing ==
    \A w \in Workers :
        (Running /\ pc[w] = "ret" /\ retval[w] # 1) => hist[w].wrote = 0

\* ------------------------------------------------- the arguments of an insert
\* C37: when an insert query of a transaction is about to execute, its argument
\* vector holds exactly one RID after the user columns, and the transaction holds
\* the X lock on that RID.
C37_OnePreallocatedRid ==
    \A w \in Workers :
        (phase = "run" /\ pc[w] = "exec" /\ CurQuery(w).op = "insert") =>
            /\ Len(CurQuery(w).extra) = 1
            /\ Holds(CurId(w), CurQuery(w).extra[1], "X")

\* ------------------------------------------------------------ the eviction mutex
\* C38: evict_lock is held only by a thread that is inside __evict: once an
\* eviction attempt is over, the failed one with every page pinned included, the
\* mutex is free.
C38_EvictLockReleased ==
    pool.evict_lock # Free => fetchers[pool.evict_lock].pc = "pop"

\* ------------------------------------------------------- unique primary keys
\* C39: when the transactions consist of inserts only, the primary-key index maps
\* every key to at most one base RID.
C39_KeysStayUnique ==
    (\A t \in Txns : \A i \in 1..Len(queries[t]) : queries[t][i].op = "insert") =>
        \A k \in DOMAIN pkidx : Len(pkidx[k]) <= 1

\* ------------------------------------------------ select with and without index
\* The rows select_version returns through the index of the column (the index the
\* table keeps, or the one the select builds) and through Table.scan.
RowsByIndex(T, key, col, version) ==
    LET T1 == IF IsIndexed(T, col) THEN T ELSE create_index_column(T, col)
    IN  SelectRows(T1, Idx(T1, col)[key], version, 1)

RowsByScan(T, key, col, version) ==
    SelectRows(T, ScanRids(T, BaseRids(T), key, col, version, 1), version, 1)

\* C40: for every key, column and version the select through the index returns the
\* same set of records as the select through the scan.
C40_IndexedEqualsScan ==
    \A col \in {1, 2} : \A key \in ColVals(col) : \A v \in Versions :
        LET byIndex == RowsByIndex(TableState, key, col, 0 - v)
            byScan == RowsByScan(TableState, key, col, 0 - v)
        IN  /\ byIndex.st = byScan.st
            /\ Elems(byIndex.rows) = Elems(byScan.rows)

====
